---- MODULE Spec2Model ----
(***************************************************************************)
(* bnn: layered configuration (resolver, mutator, `cfg set` handler) and   *)
(* the session store.  Values are modelled as trees:                       *)
(*   a mapping  [k |-> "map", m |-> [key -> node]]                         *)
(*   a scalar   [k |-> "val", ty |-> <js type>, v |-> <text>]              *)
(***************************************************************************)
EXTENDS Integers, Sequences, FiniteSets, TLC

VARIABLES files, env, store, clock, nextId, locked, mTarget, mSource, repl, procs, out

vars == <<files, env, store, clock, nextId, locked, mTarget, mSource, repl, procs, out>>

cfgVars == <<files, env>>
sessVars == <<store, clock, nextId, locked>>
mergeVars == <<mTarget, mSource>>
procVars == <<repl, procs>>

\* no interactive loop is running
NoRepl == [loop |-> "off"]

\* no invocation is between its read and its write
NoProcs == <<>>

(***************************************************************************)
(* Values                                                                  *)
(***************************************************************************)
EmptyMap == [x \in {} |-> 0]

MapOf(f) == [k |-> "map", m |-> f]

Leaf(ty, v) == [k |-> "val", ty |-> ty, v |-> v]

Str(s) == Leaf("string", s)

NullV == Leaf("null", "null")

UndefV == Leaf("undefined", "undefined")

ArrV(s) == Leaf("array", s)

\* typeof x === "object" && x !== null && !Array.isArray(x)
IsMap(n) == n.k = "map"

\* obj[key], undefined when the key is not there
Get(n, key) == IF key \in DOMAIN n.m THEN n.m[key] ELSE UndefV

\* obj[key] = value
Put(n, key, value) ==
  MapOf([x \in (DOMAIN n.m) \cup {key} |-> IF x = key THEN value ELSE n.m[x]])

\* delete obj[key]
Del(n, key) == MapOf([x \in (DOMAIN n.m) \ {key} |-> n.m[x]])

(***************************************************************************)
(* deepMerge(target, ...sources)                                           *)
(***************************************************************************)
RECURSIVE deepMerge(_, _)
deepMergeKeepsMapping(target, sources) ==
  IF sources = <<>> THEN target
  ELSE LET source == Head(sources)
           keys == (DOMAIN target.m) \cup (DOMAIN source.m)
           merged == MapOf([key \in keys |->
                       IF key \in DOMAIN source.m
                       THEN LET sourceValue == Get(source, key)
                                targetValue == Get(target, key)
                            IN IF IsMap(targetValue)
                               THEN IF IsMap(sourceValue)
                                    THEN deepMerge(targetValue, <<sourceValue>>)
                                    ELSE targetValue
                               ELSE IF sourceValue # UndefV
                                    THEN sourceValue
                                    ELSE targetValue
                       ELSE Get(target, key)])
       IN deepMerge(merged, Tail(sources))

deepMerge(target, sources) ==
  IF sources = <<>> THEN target
  ELSE LET source == Head(sources)
           keys == (DOMAIN target.m) \cup (DOMAIN source.m)
           merged == MapOf([key \in keys |->
                       IF key \in DOMAIN source.m
                       THEN LET sourceValue == Get(source, key)
                                targetValue == Get(target, key)
                            IN IF sourceValue # UndefV /\ IsMap(sourceValue)
                                  /\ IsMap(targetValue)
                               THEN deepMerge(targetValue, <<sourceValue>>)
                               ELSE IF sourceValue # UndefV
                                    THEN sourceValue
                                    ELSE targetValue
                       ELSE Get(target, key)])
       IN deepMerge(merged, Tail(sources))

(***************************************************************************)
(* ConfigSchema (zod): type and enum checks, unknown keys stripped,        *)
(* declared defaults filled in for a section that is present               *)
(***************************************************************************)
Num(s) == Leaf("number", s)

SupportedModels == {"gemini-3.1-flash-image-preview", "gemini-3-pro-image-preview"}

ThinkingLevels == {"minimal", "high", "dynamic"}

Resolutions == {"512px", "1k", "2k", "4k"}

AspectRatios == {"1:1", "1:4", "1:8", "2:3", "3:2", "3:4", "4:1", "4:3", "4:5",
                 "5:4", "8:1", "9:16", "16:9", "21:9"}

Namings == {"prompt", "timestamp", "sequential"}

LogLevels == {"error", "warn", "info", "debug"}

\* texts of the numbers used that are positive integers
PositiveInts == {"1", "2", "3", "50"}

SchemaFields ==
  [api |-> {"key", "endpoint"},
   model |-> {"default", "thinking"},
   output |-> {"directory", "resolution", "aspect_ratio", "naming"},
   session |-> {"directory", "max_history"},
   logging |-> {"level"}]

Sections == DOMAIN SchemaFields

IsString(n) == n.k = "val" /\ n.ty = "string"

IsEnum(n, set) == IsString(n) /\ n.v \in set

FieldOk(section, field, n) ==
  CASE section = "api" -> IsString(n)
    [] section = "model" /\ field = "default" -> IsEnum(n, SupportedModels)
    [] section = "model" /\ field = "thinking" -> IsEnum(n, ThinkingLevels)
    [] section = "output" /\ field = "directory" -> IsString(n)
    [] section = "output" /\ field = "resolution" -> IsEnum(n, Resolutions)
    [] section = "output" /\ field = "aspect_ratio" -> IsEnum(n, AspectRatios)
    [] section = "output" /\ field = "naming" -> IsEnum(n, Namings)
    [] section = "session" /\ field = "directory" -> IsString(n)
    [] section = "session" /\ field = "max_history" ->
         n.k = "val" /\ n.ty = "number" /\ n.v \in PositiveInts
    [] section = "logging" /\ field = "level" -> IsEnum(n, LogLevels)

\* fields declared with .default(...) directly inside their section object
SchemaDefaults ==
  [api |-> EmptyMap,
   model |-> [default |-> Str("gemini-3.1-flash-image-preview")],
   output |-> EmptyMap,
   session |-> [max_history |-> Num("50")],
   logging |-> [level |-> Str("info")]]

SectionOk(section, n) ==
  /\ IsMap(n)
  /\ \A field \in (DOMAIN n.m) \cap SchemaFields[section] :
       FieldOk(section, field, n.m[field])

ParseSection(section, n) ==
  LET given == (DOMAIN n.m) \cap SchemaFields[section]
      dflt == SchemaDefaults[section]
  IN MapOf([field \in given \cup DOMAIN dflt |->
              IF field \in given THEN n.m[field] ELSE dflt[field]])

ConfigSchemaParse(doc) ==
  LET present == (DOMAIN doc.m) \cap Sections
  IN IF \A section \in present : SectionOk(section, doc.m[section])
     THEN [ok |-> TRUE,
           value |-> MapOf([section \in present |->
                              ParseSection(section, doc.m[section])])]
     ELSE [ok |-> FALSE]

(***************************************************************************)
(* Files: a path holds no file, a TOML document, text that is not TOML, or  *)
(* a file that exists and cannot be read                                   *)
(***************************************************************************)
Missing == [k |-> "missing"]

Garbage == [k |-> "garbage"]

Unreadable == [k |-> "unreadable"]

existsSync(file) == file # Missing

loadTomlFileSkipsBroken(file) ==
  IF ~existsSync(file) \/ file = Garbage \/ file = Unreadable
  THEN [ok |-> TRUE, null |-> TRUE]
  ELSE LET parsed == ConfigSchemaParse(file)
       IN IF parsed.ok THEN [ok |-> TRUE, null |-> FALSE, value |-> parsed.value]
          ELSE [ok |-> TRUE, null |-> TRUE]

\* null when the file is not there; throws on a read, TOML or schema error
loadTomlFile(file) ==
  IF ~existsSync(file) THEN [ok |-> TRUE, null |-> TRUE]
  ELSE IF file = Garbage \/ file = Unreadable THEN [ok |-> FALSE]
  ELSE LET parsed == ConfigSchemaParse(file)
       IN IF parsed.ok THEN [ok |-> TRUE, null |-> FALSE, value |-> parsed.value]
          ELSE [ok |-> FALSE]

DEFAULT_CONFIG_LEGACY ==
  MapOf([api |-> MapOf([key |-> UndefV]),
         model |-> MapOf([default |-> Str("gemini-2.0-flash-exp")]),
         output |-> MapOf([directory |-> UndefV,
                           resolution |-> Str("1k"),
                           aspect_ratio |-> Str("1:1"),
                           naming |-> Str("prompt")]),
         session |-> MapOf([directory |-> Str("~/.local/share/bnn/sessions"),
                            max_history |-> Num("50")]),
         logging |-> MapOf([level |-> Str("info")])])

DEFAULT_CONFIG ==
  MapOf([api |-> MapOf([key |-> UndefV, endpoint |-> UndefV]),
         model |-> MapOf([default |-> Str("gemini-3.1-flash-image-preview")]),
         output |-> MapOf([directory |-> UndefV,
                           resolution |-> Str("1k"),
                           aspect_ratio |-> Str("1:1"),
                           naming |-> Str("prompt")]),
         session |-> MapOf([directory |-> Str("~/.local/share/bnn/sessions"),
                            max_history |-> Num("50")]),
         logging |-> MapOf([level |-> Str("info")])])

(***************************************************************************)
(* Environment: a variable that is unset or empty reads as ""              *)
(***************************************************************************)
EnvVars == {"BNN_API_KEY", "BNN_ENDPOINT", "BNN_MODEL", "BNN_THINKING",
            "BNN_OUTPUT_DIR", "BNN_RESOLUTION", "BNN_ASPECT_RATIO"}

IsSet(e, name) == e[name] # ""

\* the keys of a section object that loadEnvConfig assigns
EnvSection(pairs) ==
  MapOf([field \in {p[1] : p \in {q \in pairs : q[2]}} |->
           Str((CHOOSE p \in pairs : p[1] = field)[3])])

loadEnvConfig(e) ==
  LET api == EnvSection({<<"key", IsSet(e, "BNN_API_KEY"), e["BNN_API_KEY"]>>,
                         <<"endpoint", IsSet(e, "BNN_ENDPOINT"), e["BNN_ENDPOINT"]>>})
      modelConfig ==
        EnvSection({<<"default", IsSet(e, "BNN_MODEL") /\ e["BNN_MODEL"] \in SupportedModels,
                      e["BNN_MODEL"]>>,
                    <<"thinking", IsSet(e, "BNN_THINKING")
                                    /\ e["BNN_THINKING"] \in {"minimal", "high", "dynamic"},
                      e["BNN_THINKING"]>>})
      output ==
        EnvSection({<<"directory", IsSet(e, "BNN_OUTPUT_DIR"), e["BNN_OUTPUT_DIR"]>>,
                    <<"resolution", IsSet(e, "BNN_RESOLUTION")
                                      /\ e["BNN_RESOLUTION"] \in {"512px", "1k", "2k", "4k"},
                      e["BNN_RESOLUTION"]>>,
                    <<"aspect_ratio", IsSet(e, "BNN_ASPECT_RATIO"), e["BNN_ASPECT_RATIO"]>>})
      hasApi == IsSet(e, "BNN_API_KEY") \/ IsSet(e, "BNN_ENDPOINT")
      hasModel == DOMAIN modelConfig.m # {}
      hasOutput == IsSet(e, "BNN_OUTPUT_DIR") \/ IsSet(e, "BNN_RESOLUTION")
                     \/ IsSet(e, "BNN_ASPECT_RATIO")
      secs == (IF hasApi THEN {"api"} ELSE {})
                \cup (IF hasModel THEN {"model"} ELSE {})
                \cup (IF hasOutput THEN {"output"} ELSE {})
  IN MapOf([s \in secs |-> CASE s = "api" -> api
                             [] s = "model" -> modelConfig
                             [] s = "output" -> output])

(***************************************************************************)
(* loadConfig(customConfigPath)                                            *)
(***************************************************************************)
ConfigPaths == {"global", "project", "override"}

NoPath == "none"

loadConfig(fs, e, customConfigPath) ==
  LET globalConfig == loadTomlFile(fs["global"])
      projectConfig == loadTomlFile(fs["project"])
      customConfig == IF customConfigPath # NoPath
                      THEN loadTomlFile(fs[customConfigPath])
                      ELSE [ok |-> TRUE, null |-> TRUE]
      pushed(c) == IF c.null THEN <<>> ELSE <<c.value>>
  IN IF ~globalConfig.ok THEN [ok |-> FALSE, source |-> "global"]
     ELSE IF ~projectConfig.ok THEN [ok |-> FALSE, source |-> "project"]
     ELSE IF ~customConfig.ok THEN [ok |-> FALSE, source |-> customConfigPath]
     ELSE [ok |-> TRUE,
           value |-> deepMerge(MapOf(EmptyMap),
                               <<DEFAULT_CONFIG>> \o pushed(globalConfig)
                                 \o pushed(projectConfig) \o pushed(customConfig)
                                 \o <<loadEnvConfig(e)>>)]

(***************************************************************************)
(* ConfigMutator: dotted keys are sequences of segments (key.split("."))   *)
(***************************************************************************)
\* parse(stringify(config)): TOML has no null, stringify leaves out the
\* keys whose value is null or undefined
RECURSIVE tomlRoundTrip(_)
tomlRoundTrip(n) ==
  IF ~IsMap(n) THEN n
  ELSE MapOf([key \in {x \in DOMAIN n.m : n.m[x] \notin {NullV, UndefV}} |->
                tomlRoundTrip(n.m[key])])

\* {} when the file is not there; throws when it is not TOML
loadMutableConfig(file) ==
  IF ~existsSync(file) THEN [ok |-> TRUE, value |-> MapOf(EmptyMap)]
  ELSE IF file = Garbage \/ file = Unreadable THEN [ok |-> FALSE]
  ELSE [ok |-> TRUE, value |-> file]

RECURSIVE setNestedValue(_, _, _)
setNestedValueDropsSiblings(target, parts, value) ==
  IF Len(parts) = 1 THEN Put(target, parts[1], value)
  ELSE Put(target, parts[1],
           setNestedValue(MapOf(EmptyMap), Tail(parts), value))

setNestedValue(target, parts, value) ==
  IF Len(parts) = 1 THEN Put(target, parts[1], value)
  ELSE LET part == parts[1]
           existing == Get(target, part)
           current == IF ~IsMap(existing) THEN MapOf(EmptyMap) ELSE existing
       IN Put(target, part, setNestedValue(current, Tail(parts), value))

\* [removed |-> the return value, config |-> the object afterwards]
RECURSIVE unsetNestedValue(_, _)
unsetNestedValueAlwaysCounts(target, parts) ==
  IF Len(parts) = 1
  THEN [removed |-> TRUE, config |-> Del(target, parts[1])]
  ELSE LET next == Get(target, parts[1])
       IN IF ~IsMap(next) THEN [removed |-> FALSE, config |-> target]
          ELSE LET r == unsetNestedValue(next, Tail(parts))
               IN [removed |-> r.removed, config |-> Put(target, parts[1], r.config)]

unsetNestedValue(target, parts) ==
  IF Len(parts) = 1
  THEN IF parts[1] \notin DOMAIN target.m
       THEN [removed |-> FALSE, config |-> target]
       ELSE [removed |-> TRUE, config |-> Del(target, parts[1])]
  ELSE LET next == Get(target, parts[1])
       IN IF ~IsMap(next) THEN [removed |-> FALSE, config |-> target]
          ELSE LET r == unsetNestedValue(next, Tail(parts))
               IN [removed |-> r.removed, config |-> Put(target, parts[1], r.config)]

\* the loop of setConfigValues over Object.entries(values)
RECURSIVE setAll(_, _)
setAll(config, values) ==
  IF values = <<>> THEN config
  ELSE setAll(setNestedValue(config, Head(values)[1], Head(values)[2]), Tail(values))

\* the loop of unsetConfigValues over keys
RECURSIVE unsetAll(_, _)
unsetAll(config, keys) ==
  IF keys = <<>> THEN [unsetCount |-> 0, config |-> config]
  ELSE LET r == unsetNestedValue(config, Head(keys))
           rest == unsetAll(r.config, Tail(keys))
       IN [unsetCount |-> (IF r.removed THEN 1 ELSE 0) + rest.unsetCount,
           config |-> rest.config]

Layers == {"global", "project"}

\* getWritableConfigPath(global)
getWritableConfigPath(layer) == layer

\* [ok, files]: the file system after setConfigValues(values, layer)
setConfigValues(fs, values, layer) ==
  LET path == getWritableConfigPath(layer)
      loaded == loadMutableConfig(fs[path])
  IN IF ~loaded.ok THEN [ok |-> FALSE, files |-> fs]
     ELSE [ok |-> TRUE,
           files |-> [fs EXCEPT ![path] = tomlRoundTrip(setAll(loaded.value, values))]]

\* [ok, count, files]: the file system after unsetConfigValues(keys, layer)
unsetConfigValues(fs, keys, layer) ==
  LET path == getWritableConfigPath(layer)
      loaded == loadMutableConfig(fs[path])
  IN IF ~existsSync(fs[path]) THEN [ok |-> TRUE, count |-> 0, files |-> fs]
     ELSE IF ~loaded.ok THEN [ok |-> FALSE, count |-> 0, files |-> fs]
     ELSE LET r == unsetAll(loaded.value, keys)
          IN [ok |-> TRUE, count |-> r.unsetCount,
              files |-> [fs EXCEPT ![path] = tomlRoundTrip(r.config)]]

\* read(layer): the document of a layer, empty when the file is not there
readLayer(fs, layer) == loadMutableConfig(fs[getWritableConfigPath(layer)]).value

\* the document that parse gives for the template text of initConfig: the
\* lines of [api] are comments
InitTemplate ==
  MapOf([api |-> MapOf(EmptyMap),
         model |-> MapOf([default |-> Str("gemini-3.1-flash-image-preview")]),
         output |-> MapOf([resolution |-> Str("1k"),
                           aspect_ratio |-> Str("1:1"),
                           naming |-> Str("prompt")]),
         session |-> MapOf([max_history |-> Num("50")]),
         logging |-> MapOf([level |-> Str("info")])])

initConfigOverwrites(fs, layer) ==
  LET path == getWritableConfigPath(layer)
  IN [ok |-> TRUE, path |-> path, files |-> [fs EXCEPT ![path] = InitTemplate]]

\* [ok, path, files]: initConfig(global) throws when the file exists
initConfig(fs, layer) ==
  LET path == getWritableConfigPath(layer)
  IN IF existsSync(fs[path]) THEN [ok |-> FALSE, path |-> path, files |-> fs]
     ELSE [ok |-> TRUE, path |-> path, files |-> [fs EXCEPT ![path] = InitTemplate]]

\* [ok, path, files]: writeConfigObject(config, global) writes what
\* ConfigSchema.parse returns, and throws when it rejects the payload
writeConfigObject(fs, config, layer) ==
  LET path == getWritableConfigPath(layer)
      parsed == IF IsMap(config) THEN ConfigSchemaParse(config) ELSE [ok |-> FALSE]
  IN IF ~parsed.ok THEN [ok |-> FALSE, path |-> path, files |-> fs]
     ELSE [ok |-> TRUE, path |-> path,
           files |-> [fs EXCEPT ![path] = tomlRoundTrip(parsed.value)]]

\* stdin of `cfg import`: nothing piped, text that is not JSON, or a JSON value
EmptyStdin == [k |-> "empty"]

\* [ok, path, files]: the action of `cfg import --json`
importCommand(fs, stdin, layer) ==
  IF stdin = EmptyStdin \/ stdin = Garbage
  THEN [ok |-> FALSE, path |-> getWritableConfigPath(layer), files |-> fs]
  ELSE writeConfigObject(fs, stdin, layer)

(***************************************************************************)
(* `cfg set <entries...>`.  An argument is a text; it is kept here as      *)
(*   eq  : whether it contains "="                                         *)
(*   key : the segments of the text before the first "=" (of the whole     *)
(*         text when there is none), <<>> when that text is empty          *)
(*   val : the text after the first "=" (the whole text of an argument     *)
(*         that is read as a value)                                        *)
(***************************************************************************)
Lower(segment) ==
  CASE segment = "KEY" -> "key"
    [] segment = "Token" -> "token"
    [] OTHER -> segment

\* /(^|\.)(key|token|secret|password)$/i
isSecretKeyCaseSensitive(key) ==
  key # <<>> /\ key[Len(key)] \in {"key", "token", "secret", "password"}

isSecretKey(key) ==
  key # <<>> /\ Lower(key[Len(key)]) \in {"key", "token", "secret", "password"}

parseCliValue(value) ==
  CASE value = "true" -> Leaf("boolean", "true")
    [] value = "false" -> Leaf("boolean", "false")
    [] value = "null" -> NullV
    [] value \in {"7", "50"} -> Num(value)
    [] OTHER -> Str(value)

\* the characters of the texts that can be piped in
StdinChars ==
  [t \in {"", " ", "a", " a", "a ", " a "} |->
     CASE t = "" -> <<>>
       [] t = " " -> <<" ">>
       [] t = "a" -> <<"a">>
       [] t = " a" -> <<" ", "a">>
       [] t = "a " -> <<"a", " ">>
       [] t = " a " -> <<" ", "a", " ">>]

TextOf(chars) == CHOOSE t \in DOMAIN StdinChars : StdinChars[t] = chars

IsSpace(c) == c = " "

\* input.replace(/\s+$/, "")
RECURSIVE stripTrailing(_)
stripTrailing(chars) ==
  IF chars # <<>> /\ IsSpace(chars[Len(chars)])
  THEN stripTrailing(SubSeq(chars, 1, Len(chars) - 1))
  ELSE chars

readStdinTextTrimsBothEnds(input) ==
  LET t == stripTrailing(StdinChars[input])
  IN TextOf(IF t # <<>> /\ IsSpace(Head(t)) THEN Tail(t) ELSE t)

readStdinText(input) == TextOf(stripTrailing(StdinChars[input]))

\* updates[key] = value on a Record: a key keeps the place of its first
\* assignment
Assign(updates, key, value) ==
  IF \E i \in 1..Len(updates) : updates[i][1] = key
  THEN [i \in 1..Len(updates) |->
          IF updates[i][1] = key THEN <<key, value>> ELSE updates[i]]
  ELSE Append(updates, <<key, value>>)

\* what the n-th read of stdin returns: the pipe content the first time;
\* after that the stream may be at its end
StdinRead(stdin, again, reads) == IF reads = 0 \/ again = "same" THEN stdin ELSE ""

\* the key=value loop; [error, updates]
RECURSIVE setEntries(_, _, _, _, _)
setEntries(entries, updates, stdin, again, reads) ==
  IF entries = <<>> THEN [error |-> "none", updates |-> updates]
  ELSE LET entry == Head(entries)
           key == entry.key
           value == entry.val
           stdinValue == readStdinText(StdinRead(stdin, again, reads))
       IN IF ~entry.eq \/ key = <<>>
          THEN [error |-> "invalidEntry", updates |-> <<>>]
          ELSE IF isSecretKey(key) /\ value # "-"
          THEN [error |-> "secretArgv", updates |-> <<>>]
          ELSE IF value = "-"
          THEN IF stdinValue = ""
               THEN [error |-> "noStdin", updates |-> <<>>]
               ELSE setEntries(Tail(entries), Assign(updates, key, Str(stdinValue)),
                               stdin, again, reads + 1)
          ELSE setEntries(Tail(entries), Assign(updates, key, parseCliValue(value)),
                          stdin, again, reads)

\* the action of createSetCommand up to the call of setConfigValues
setCommandUpdates(entries, stdin, again) ==
  IF Len(entries) = 2 /\ ~entries[1].eq /\ ~entries[2].eq
  THEN LET key == entries[1].key
           value == entries[2].val
           stdinValue == readStdinText(stdin)
       IN IF value = "-"
          THEN IF stdinValue = ""
               THEN [error |-> "noStdin", updates |-> <<>>]
               ELSE [error |-> "none", updates |-> <<<<key, Str(stdinValue)>>>>]
          ELSE IF isSecretKey(key)
               THEN [error |-> "secretArgv", updates |-> <<>>]
               ELSE [error |-> "none", updates |-> <<<<key, parseCliValue(value)>>>>]
  ELSE setEntries(entries, <<>>, stdin, again, 0)

setCommandWritesEarlier(fs, entries, stdin, again, layer) ==
  LET u == setCommandUpdates(entries, stdin, again)
      w == setConfigValues(fs, u.updates, layer)
      first == setCommandUpdates(<<entries[1]>>, stdin, again)
      early == setConfigValues(fs, first.updates, layer)
  IN IF u.error # "none"
     THEN [error |-> u.error, updates |-> <<>>,
           files |-> IF first.error = "none" /\ early.ok THEN early.files ELSE fs]
     ELSE IF ~w.ok THEN [error |-> "write", updates |-> <<>>, files |-> fs]
     ELSE [error |-> "none", updates |-> u.updates, files |-> w.files]

\* [error, updates, files]: the whole action
setCommand(fs, entries, stdin, again, layer) ==
  LET u == setCommandUpdates(entries, stdin, again)
      w == setConfigValues(fs, u.updates, layer)
  IN IF u.error # "none" THEN [error |-> u.error, updates |-> <<>>, files |-> fs]
     ELSE IF ~w.ok THEN [error |-> "write", updates |-> <<>>, files |-> fs]
     ELSE [error |-> "none", updates |-> u.updates, files |-> w.files]

(***************************************************************************)
(* SessionStorage and SessionManager.  A record file <id>.json holds a     *)
(* session, text that is not JSON, or JSON without the session fields      *)
(***************************************************************************)
NoRecord == [kind |-> "none"]

GarbageRecord == [kind |-> "garbage"]

NoHistoryRecord == [kind |-> "nohist"]

\* undefined, null and the empty string: the falsy payloads
NoData == ""

IsSession(record) == record.kind = "ok"

\* the files of readdirSync(directory) that end in .json
RecordFiles(st) == {id \in DOMAIN st : st[id] # NoRecord}

save(st, session) == [st EXCEPT ![session.id] = session]

storageGetReturnsUnparsed(st, id) ==
  IF st[id] = NoRecord THEN [null |-> TRUE]
  ELSE [null |-> FALSE, session |-> st[id]]

\* null for a missing file and for text that JSON.parse rejects
storageGet(st, id) ==
  IF st[id] = NoRecord \/ st[id] = GarbageRecord THEN [null |-> TRUE]
  ELSE [null |-> FALSE, session |-> st[id]]

\* [threw, deleted, store]: unlinkSync throws on a file it cannot remove
storageDelete(st, lk, id) ==
  IF st[id] = NoRecord THEN [threw |-> FALSE, deleted |-> FALSE, store |-> st]
  ELSE IF id \in lk THEN [threw |-> TRUE, deleted |-> FALSE, store |-> st]
  ELSE [threw |-> FALSE, deleted |-> TRUE, store |-> [st EXCEPT ![id] = NoRecord]]

NoPrompt == ""

SummaryFirstPrompt(session) ==
  [id |-> session.id,
   created_at |-> session.created_at,
   updated_at |-> session.updated_at,
   model |-> session.model,
   history_count |-> Len(session.history),
   last_prompt |-> IF session.history = <<>> THEN NoPrompt
                   ELSE session.history[1].prompt]

Summary(session) ==
  [id |-> session.id,
   created_at |-> session.created_at,
   updated_at |-> session.updated_at,
   model |-> session.model,
   history_count |-> Len(session.history),
   last_prompt |-> IF session.history = <<>> THEN NoPrompt
                   ELSE session.history[Len(session.history)].prompt]

\* one step of the stable sort with (a, b) => time(b) - time(a): x goes
\* behind every summary already placed that is not older than x
insertAscending(sorted, x) ==
  LET n == Cardinality({i \in 1..Len(sorted) : sorted[i].updated_at <= x.updated_at})
  IN SubSeq(sorted, 1, n) \o <<x>> \o SubSeq(sorted, n + 1, Len(sorted))

insertByUpdatedDesc(sorted, x) ==
  LET n == Cardinality({i \in 1..Len(sorted) : sorted[i].updated_at >= x.updated_at})
  IN SubSeq(sorted, 1, n) \o <<x>> \o SubSeq(sorted, n + 1, Len(sorted))

RECURSIVE sortByUpdatedDesc(_, _)
sortByUpdatedDesc(sorted, rest) ==
  IF rest = <<>> THEN sorted
  ELSE sortByUpdatedDesc(insertByUpdatedDesc(sorted, Head(rest)), Tail(rest))

\* the loop of list over the files in directory order: a file that does
\* not parse, or has no history, is skipped
RECURSIVE summaries(_, _)
summaries(st, order) ==
  IF order = <<>> THEN <<>>
  ELSE IF IsSession(st[Head(order)])
       THEN <<Summary(st[Head(order)])>> \o summaries(st, Tail(order))
       ELSE summaries(st, Tail(order))

\* list(), order being the order in which readdirSync gives the files
storageList(st, order) == sortByUpdatedDesc(<<>>, summaries(st, order))

\* the orders readdirSync can give; a file that list skips is put first,
\* where it stands makes no difference
DirOrders(st) ==
  LET skipped == {id \in RecordFiles(st) : ~IsSession(st[id])}
      kept == RecordFiles(st) \ skipped
      first == IF skipped = {} THEN <<>> ELSE <<CHOOSE id \in skipped : TRUE>>
  IN {first \o o : o \in {p \in [1..Cardinality(kept) -> kept] :
                              \A i, j \in 1..Cardinality(kept) : i # j => p[i] # p[j]}}

\* the loop of clear: a file that cannot be removed is skipped
storageClear(st, lk) ==
  [count |-> Cardinality(RecordFiles(st) \ lk),
   store |-> [id \in DOMAIN st |-> IF id \in lk THEN st[id] ELSE NoRecord]]

\* the loop of prune over toDelete; [threw, pruned, store]
RECURSIVE deleteEach(_, _, _)
deleteEach(st, lk, toDelete) ==
  IF toDelete = <<>> THEN [threw |-> FALSE, pruned |-> 0, store |-> st]
  ELSE LET d == storageDelete(st, lk, Head(toDelete).id)
       IN IF d.threw THEN [threw |-> TRUE, pruned |-> 0, store |-> st]
          ELSE LET rest == deleteEach(d.store, lk, Tail(toDelete))
               IN [threw |-> rest.threw,
                   pruned |-> (IF d.deleted THEN 1 ELSE 0) + rest.pruned,
                   store |-> rest.store]

pruneOldestKept(st, lk, maxHistory, order) ==
  LET sessions == storageList(st, order)
  IN IF Len(sessions) > maxHistory
     THEN deleteEach(st, lk, SubSeq(sessions, 1, Len(sessions) - maxHistory))
     ELSE [threw |-> FALSE, pruned |-> 0, store |-> st]

prune(st, lk, maxHistory, order) ==
  LET sessions == storageList(st, order)
  IN IF Len(sessions) > maxHistory
     THEN deleteEach(st, lk, SubSeq(sessions, maxHistory + 1, Len(sessions)))
     ELSE [threw |-> FALSE, pruned |-> 0, store |-> st]

createSkipsPrune(st, lk, maxHistory, order, id, now, model, inputImage) ==
  LET session == [kind |-> "ok", id |-> id, created_at |-> now, updated_at |-> now,
                  model |-> model, input_image |-> inputImage, history |-> <<>>]
  IN [threw |-> FALSE, session |-> session, pruned |-> 0, store |-> save(st, session)]

\* SessionManager.create; id is the value of nanoid(10), now the clock;
\* [threw, session, pruned, store], pruned being what prune returned
create(st, lk, maxHistory, order, id, now, model, inputImage) ==
  LET session == [kind |-> "ok", id |-> id, created_at |-> now, updated_at |-> now,
                  model |-> model, input_image |-> inputImage, history |-> <<>>]
      pruned == prune(save(st, session), lk, maxHistory, order)
  IN [threw |-> pruned.threw, session |-> session, pruned |-> pruned.pruned,
      store |-> pruned.store]

\* SessionManager.addEntry; [threw, null, store]
addEntryCreatesMissing(st, sessionId, prompt, output, imageData, now) ==
  LET g == storageGet(st, sessionId)
      entry == [prompt |-> prompt, output |-> output, timestamp |-> now,
                image_data |-> imageData]
  IN IF g.null
     THEN [threw |-> FALSE, null |-> FALSE,
           store |-> save(st, [kind |-> "ok", id |-> sessionId, created_at |-> now,
                               updated_at |-> now, model |-> "m",
                               input_image |-> NoData, history |-> <<entry>>])]
     ELSE IF ~IsSession(g.session) THEN [threw |-> TRUE, null |-> FALSE, store |-> st]
     ELSE [threw |-> FALSE, null |-> FALSE,
           store |-> save(st, [g.session EXCEPT !.history = Append(@, entry),
                                                !.updated_at = entry.timestamp])]

addEntryResetsCreatedAt(st, sessionId, prompt, output, imageData, now) ==
  LET g == storageGet(st, sessionId)
      entry == [prompt |-> prompt, output |-> output, timestamp |-> now,
                image_data |-> imageData]
  IN IF g.null THEN [threw |-> FALSE, null |-> TRUE, store |-> st]
     ELSE IF ~IsSession(g.session) THEN [threw |-> TRUE, null |-> FALSE, store |-> st]
     ELSE [threw |-> FALSE, null |-> FALSE,
           store |-> save(st, [g.session EXCEPT !.history = Append(@, entry),
                                                !.created_at = entry.timestamp,
                                                !.updated_at = entry.timestamp])]

addEntryKeepsUpdatedAt(st, sessionId, prompt, output, imageData, now) ==
  LET g == storageGet(st, sessionId)
      entry == [prompt |-> prompt, output |-> output, timestamp |-> now,
                image_data |-> imageData]
  IN IF g.null THEN [threw |-> FALSE, null |-> TRUE, store |-> st]
     ELSE IF ~IsSession(g.session) THEN [threw |-> TRUE, null |-> FALSE, store |-> st]
     ELSE [threw |-> FALSE, null |-> FALSE,
           store |-> save(st, [g.session EXCEPT !.history = Append(@, entry)])]

addEntryReplacesHistory(st, sessionId, prompt, output, imageData, now) ==
  LET g == storageGet(st, sessionId)
      entry == [prompt |-> prompt, output |-> output, timestamp |-> now,
                image_data |-> imageData]
  IN IF g.null THEN [threw |-> FALSE, null |-> TRUE, store |-> st]
     ELSE IF ~IsSession(g.session) THEN [threw |-> TRUE, null |-> FALSE, store |-> st]
     ELSE [threw |-> FALSE, null |-> FALSE,
           store |-> save(st, [g.session EXCEPT !.history = <<entry>>,
                                                !.updated_at = entry.timestamp])]

addEntry(st, sessionId, prompt, output, imageData, now) ==
  LET g == storageGet(st, sessionId)
      entry == [prompt |-> prompt, output |-> output, timestamp |-> now,
                image_data |-> imageData]
  IN IF g.null THEN [threw |-> FALSE, null |-> TRUE, store |-> st]
     ELSE IF ~IsSession(g.session) THEN [threw |-> TRUE, null |-> FALSE, store |-> st]
     ELSE [threw |-> FALSE, null |-> FALSE,
           store |-> save(st, [g.session EXCEPT !.history = Append(@, entry),
                                                !.updated_at = entry.timestamp])]

\* SessionManager.getLastImageData; [threw, data], NoData being null
getLastImageData(st, sessionId) ==
  LET g == storageGet(st, sessionId)
  IN IF g.null THEN [threw |-> FALSE, data |-> NoData]
     ELSE IF ~IsSession(g.session) THEN [threw |-> TRUE, data |-> NoData]
     ELSE IF Len(g.session.history) = 0 THEN [threw |-> FALSE, data |-> NoData]
     ELSE LET lastEntry == g.session.history[Len(g.session.history)]
          IN [threw |-> FALSE,
              data |-> IF lastEntry.image_data # NoData THEN lastEntry.image_data
                       ELSE IF g.session.input_image # NoData THEN g.session.input_image
                       ELSE NoData]

(***************************************************************************)
(* Specification of deepMerge on arbitrary two-level values                *)
(***************************************************************************)
MergeKeys == {"a", "b"}

MergeLeaves == {Str("s1"), Str("s2"), ArrV("x")}

MapsOver(keys, vals) ==
  UNION {{MapOf(f) : f \in [d -> vals]} : d \in SUBSET keys}

MergeTrees1 == MapsOver(MergeKeys, MergeLeaves)

MergeTrees2 == MapsOver(MergeKeys, MergeLeaves \cup MergeTrees1)

Idle == [op |-> "none"]

InitMerge ==
  /\ mTarget \in MergeTrees2
  /\ mSource \in MergeTrees2
  /\ files = EmptyMap
  /\ env = EmptyMap
  /\ store = EmptyMap
  /\ clock = 0
  /\ nextId = 0
  /\ locked = {}
  /\ repl = NoRepl
  /\ procs = NoProcs
  /\ out = Idle

Merge ==
  /\ out = Idle
  /\ out' = [op |-> "deepMerge", result |-> deepMerge(mTarget, <<mSource>>)]
  /\ UNCHANGED <<cfgVars, sessVars, mergeVars, procVars>>

NextMerge == Merge

SpecMerge == InitMerge /\ [][NextMerge]_vars

\* C7: at each key of the incoming source, two mappings are merged key by key
\* (recursively); in every other case the result at that key is the incoming
\* value verbatim (no hybrid, no concatenation); keys the source does not
\* have keep the accumulated value.
VerbatimOrRecurse(t, s, r) ==
  /\ DOMAIN r.m = (DOMAIN t.m) \cup (DOMAIN s.m)
  /\ \A key \in DOMAIN r.m :
       IF key \notin DOMAIN s.m THEN r.m[key] = t.m[key]
       ELSE IF IsMap(s.m[key]) /\ key \in DOMAIN t.m /\ IsMap(t.m[key])
            THEN /\ IsMap(r.m[key])
                 /\ DOMAIN r.m[key].m = (DOMAIN t.m[key].m) \cup (DOMAIN s.m[key].m)
                 /\ \A sub \in DOMAIN r.m[key].m :
                      r.m[key].m[sub] = IF sub \in DOMAIN s.m[key].m
                                         THEN s.m[key].m[sub]
                                         ELSE t.m[key].m[sub]
            ELSE r.m[key] = s.m[key]

DeepMergeRecursesOrReplaces ==
  out.op = "deepMerge" => VerbatimOrRecurse(mTarget, mSource, out.result)

\* a mapping arrives over a scalar and a scalar (or array) over a mapping
DeepMergeMixedCase ==
  /\ out.op = "deepMerge"
  /\ \E key \in DOMAIN mSource.m \cap DOMAIN mTarget.m :
       IsMap(mSource.m[key]) /\ ~IsMap(mTarget.m[key])
  /\ \E key \in DOMAIN mSource.m \cap DOMAIN mTarget.m :
       mSource.m[key].k = "val" /\ mSource.m[key].ty = "array" /\ IsMap(mTarget.m[key])
  /\ out.result.m["a"] = mSource.m["a"]
  /\ out.result.m["b"] = mSource.m["b"]

(***************************************************************************)
(* Specification of the resolver: the documents and the environment are    *)
(* inputs, resolve is run once                                             *)
(***************************************************************************)
Pro == "gemini-3-pro-image-preview"

Flash == "gemini-3.1-flash-image-preview"

ResolveModelSections ==
  {MapOf([default |-> Str(Pro)]), MapOf([thinking |-> Str("high")]),
   MapOf([default |-> Str(Flash), thinking |-> Str("minimal")])}

ResolveOutputSections == {MapOf([resolution |-> Str("2k")])}

ResolveDocs ==
  {MapOf(EmptyMap)}
    \cup {MapOf([model |-> ms]) : ms \in ResolveModelSections}
    \cup {MapOf([output |-> os]) : os \in ResolveOutputSections}
    \cup {MapOf([model |-> ms, output |-> os]) :
            ms \in ResolveModelSections, os \in ResolveOutputSections}

ResolveOverrides == {Missing, MapOf([output |-> MapOf([resolution |-> Str("4k")])])}

NoEnv == [name \in EnvVars |-> ""]

ResolveEnvs ==
  {[NoEnv EXCEPT !["BNN_MODEL"] = md, !["BNN_RESOLUTION"] = rs] :
     md \in {"", Pro}, rs \in {"", "512px"}}

InitResolve ==
  /\ \E g \in ResolveDocs \cup {Missing}, pr \in ResolveDocs \cup {Missing},
        ov \in ResolveOverrides :
       files = [global |-> g, project |-> pr, override |-> ov]
  /\ env \in ResolveEnvs
  /\ store = EmptyMap
  /\ clock = 0
  /\ nextId = 0
  /\ locked = {}
  /\ mTarget = MapOf(EmptyMap)
  /\ mSource = MapOf(EmptyMap)
  /\ repl = NoRepl
  /\ procs = NoProcs
  /\ out = Idle

Resolve(customConfigPath) ==
  /\ out = Idle
  /\ out' = [op |-> "resolve", custom |-> customConfigPath,
             result |-> loadConfig(files, env, customConfigPath)]
  /\ UNCHANGED <<cfgVars, sessVars, mergeVars, procVars>>

NextResolve == \E customConfigPath \in {NoPath, "override"} : Resolve(customConfigPath)

SpecResolve == InitResolve /\ [][NextResolve]_vars

\* the value a source gives to section.field, undefined when it has none
ValueAt(doc, section, field) ==
  IF doc # Missing /\ IsMap(doc) /\ section \in DOMAIN doc.m
     /\ IsMap(doc.m[section]) /\ field \in DOMAIN doc.m[section].m
  THEN doc.m[section].m[field]
  ELSE UndefV

\* the sources of one resolve, lowest precedence first
SourcesOf(custom) ==
  <<DEFAULT_CONFIG, files["global"], files["project"],
    IF custom = NoPath THEN Missing ELSE files[custom],
    loadEnvConfig(env)>>

HighestWith(srcs, section, field) ==
  LET having == {i \in 1..Len(srcs) : ValueAt(srcs[i], section, field) # UndefV}
  IN IF having = {} THEN UndefV
     ELSE ValueAt(srcs[CHOOSE i \in having : \A j \in having : j <= i], section, field)

\* C1: the effective value of every key path is the value of the
\* highest-precedence source (defaults < global < project < override <
\* environment) that has that path.
MergePrecedenceLaw ==
  (out.op = "resolve" /\ out.result.ok) =>
    \A section \in Sections : \A field \in SchemaFields[section] :
      ValueAt(out.result.value, section, field)
        = HighestWith(SourcesOf(out.custom), section, field)

(***************************************************************************)
(* Specification of the mutator: setMany and unsetMany on the two layers   *)
(***************************************************************************)
MaxUpdates == 2

MutKeys == {<<"api">>, <<"api", "key">>, <<"api", "endpoint">>}

MutValues == {Str("v1"), Str("v2")}

\* a Record<string, unknown>: distinct keys in insertion order
UpdateLists ==
  {u \in UNION {[1..n -> MutKeys \X MutValues] : n \in 1..MaxUpdates} :
     \A i, j \in 1..Len(u) : i # j => u[i][1] # u[j][1]}

KeyLists == UNION {[1..n -> MutKeys] : n \in 1..MaxUpdates}

NoFiles == [path \in ConfigPaths |-> Missing]

InitMutate ==
  /\ files = NoFiles
  /\ env = NoEnv
  /\ store = EmptyMap
  /\ clock = 0
  /\ nextId = 0
  /\ locked = {}
  /\ mTarget = MapOf(EmptyMap)
  /\ mSource = MapOf(EmptyMap)
  /\ repl = NoRepl
  /\ procs = NoProcs
  /\ out = Idle

SetMany(layer, values) ==
  LET r == setConfigValues(files, values, layer)
  IN /\ files' = r.files
     /\ out' = [op |-> "setMany", layer |-> layer, values |-> values, ok |-> r.ok]
     /\ UNCHANGED <<env, sessVars, mergeVars, procVars>>

UnsetMany(layer, keys) ==
  LET r == unsetConfigValues(files, keys, layer)
  IN /\ files' = r.files
     /\ out' = [op |-> "unsetMany", layer |-> layer, keys |-> keys, ok |-> r.ok,
                count |-> r.count]
     /\ UNCHANGED <<env, sessVars, mergeVars, procVars>>

NextMutate ==
  \/ \E layer \in Layers, values \in UpdateLists : SetMany(layer, values)
  \/ \E layer \in Layers, keys \in KeyLists : UnsetMany(layer, keys)

SpecMutate == InitMutate /\ [][NextMutate]_vars

\* paths of a document: every key path that leads to a value or a mapping
RECURSIVE AllPaths(_)
AllPaths(n) ==
  IF ~IsMap(n) THEN {}
  ELSE UNION {{<<key>>} \cup {<<key>> \o p : p \in AllPaths(n.m[key])} : key \in DOMAIN n.m}

RECURSIVE NodeAt(_, _)
NodeAt(n, path) ==
  IF path = <<>> THEN n
  ELSE IF IsMap(n) /\ Head(path) \in DOMAIN n.m THEN NodeAt(n.m[Head(path)], Tail(path))
  ELSE UndefV

LeafPaths(n) == {p \in AllPaths(n) : ~IsMap(NodeAt(n, p))}

IsPrefix(p, q) == Len(p) <= Len(q) /\ SubSeq(q, 1, Len(p)) = p

\* one key is the other or lies on the path to it
Related(p, q) == IsPrefix(p, q) \/ IsPrefix(q, p)

KeysOf(values) == {values[i][1] : i \in 1..Len(values)}

SetManyStep == out'.op = "setMany" /\ out'.ok

\* C6 as stated (for the values a TOML document can hold): after setMany,
\* read returns the new value of every key in updates, and every key
\* present before that updates does not name has the value it had.
SetManyKeepsEveryUnnamedKey ==
  [][SetManyStep =>
       LET before == readLayer(files, out'.layer)
           after == readLayer(files', out'.layer)
           values == out'.values
       IN /\ \A i \in 1..Len(values) :
               values[i][2] # NullV => NodeAt(after, values[i][1]) = values[i][2]
          /\ \A p \in LeafPaths(before) :
               p \notin KeysOf(values) => NodeAt(after, p) = NodeAt(before, p)]_vars

\* C6 amended: after setMany, read returns the new value of every key in
\* updates whose value is not null and that no later key of the same call
\* is a prefix or an extension of; every key present before that is
\* neither a prefix nor an extension of a key in updates has the value it
\* had.
SetManyNonDestructive ==
  [][SetManyStep =>
       LET before == readLayer(files, out'.layer)
           after == readLayer(files', out'.layer)
           values == out'.values
       IN /\ \A i \in 1..Len(values) :
               (values[i][2] # NullV
                  /\ \A j \in (i + 1)..Len(values) : ~Related(values[i][1], values[j][1]))
                 => NodeAt(after, values[i][1]) = values[i][2]
          /\ \A p \in LeafPaths(before) :
               (\A key \in KeysOf(values) : ~Related(p, key))
                 => NodeAt(after, p) = NodeAt(before, p)]_vars

\* a setMany of api.key alone on a layer where api.endpoint stays set
SetManyBesideSibling ==
  /\ out.op = "setMany" /\ out.ok
  /\ KeysOf(out.values) = {<<"api", "key">>}
  /\ NodeAt(readLayer(files, out.layer), <<"api", "key">>) = Str("v2")
  /\ NodeAt(readLayer(files, out.layer), <<"api", "endpoint">>) = Str("v1")

UnsetManyStep == out'.op = "unsetMany" /\ out'.ok

RangeOf(seq) == {seq[i] : i \in 1..Len(seq)}

RECURSIVE RemovePaths(_, _)
RemovePaths(paths, keys) ==
  IF keys = <<>> THEN [count |-> 0, paths |-> paths]
  ELSE LET key == Head(keys)
           found == key \in paths
           rest == RemovePaths(IF found THEN {p \in paths : ~IsPrefix(key, p)} ELSE paths,
                               Tail(keys))
       IN [count |-> (IF found THEN 1 ELSE 0) + rest.count, paths |-> rest.paths]

MaxEntries == 2

CliKeys == {<<"api", "key">>, <<"api", "KEY">>, <<"api">>}

CliValues == {"v1", "-", "null"}

CliStdin == {" ", "a ", " a "}

BareKeyArgs == {[eq |-> FALSE, key |-> key, val |-> ""] : key \in CliKeys}

BareValueArgs == {[eq |-> FALSE, key |-> <<>>, val |-> v] : v \in CliValues}

PairArgs == {[eq |-> TRUE, key |-> key, val |-> v] : key \in CliKeys \cup {<<>>}, v \in CliValues}

\* `<key> <value>`, and up to MaxEntries arguments of which at least one
\* has an "="
EntryLists ==
  {<<a, b>> : a \in BareKeyArgs, b \in BareValueArgs}
    \cup {e \in UNION {[1..n -> BareKeyArgs \cup PairArgs] : n \in 1..MaxEntries} :
            ~(Len(e) = 2 /\ ~e[1].eq /\ ~e[2].eq)}

OldKey == MapOf([api |-> MapOf([key |-> Str("old")])])

CliDocs == {Missing, OldKey, MapOf([api |-> Str("old")]),
            MapOf([api |-> MapOf([key |-> Str("old"), KEY |-> Str("old")])])}

InitCfgSet ==
  /\ \E g \in {Missing, OldKey}, pr \in CliDocs :
       files = [global |-> g, project |-> pr, override |-> Missing]
  /\ env = NoEnv
  /\ store = EmptyMap
  /\ clock = 0
  /\ nextId = 0
  /\ locked = {}
  /\ mTarget = MapOf(EmptyMap)
  /\ mSource = MapOf(EmptyMap)
  /\ repl = NoRepl
  /\ procs = NoProcs
  /\ out = Idle

\* the keys and the value texts as the arguments give them: `<key> <value>`
\* when the first of two arguments has no "=", else one key=value per
\* argument (an argument without "=" gives none)
GivenPairs(entries) ==
  IF Len(entries) = 2 /\ ~entries[1].eq
  THEN <<[key |-> entries[1].key,
          sentinel |-> ~entries[2].eq /\ entries[2].val = "-"]>>
  ELSE LET wellFormed == SelectSeq(entries, LAMBDA e : e.eq /\ e.key # <<>>)
       IN [i \in 1..Len(wellFormed) |->
             [key |-> wellFormed[i].key, sentinel |-> wellFormed[i].val = "-"]]

SentinelCount(entries) ==
  Cardinality({i \in 1..Len(entries) : entries[i].val = "-"})

CfgSet(entries, stdin, again, layer) ==
  LET r == setCommand(files, entries, stdin, again, layer)
  IN /\ out = Idle
     /\ files' = r.files
     /\ out' = [op |-> "cfgSet", layer |-> layer, error |-> r.error,
                updates |-> r.updates, entries |-> entries,
                given |-> GivenPairs(entries), stdin |-> stdin]
     /\ UNCHANGED <<env, sessVars, mergeVars, procVars>>

NextCfgSet ==
  \E entries \in EntryLists, layer \in Layers :
    \E stdin \in IF SentinelCount(entries) > 0 THEN CliStdin ELSE {" "} :
      \E again \in IF SentinelCount(entries) > 1 THEN {"same", "end"} ELSE {"same"} :
        CfgSet(entries, stdin, again, layer)

SpecCfgSet == InitCfgSet /\ [][NextCfgSet]_vars

\* the claims' own classification of a key as secret
SecretSegments == {"key", "KEY", "Key", "token", "Token", "TOKEN", "secret", "password"}

SecretKey(key) == key[Len(key)] \in SecretSegments

\* some key that is secret is given a literal value in the arguments
LiteralSecretGiven(given) ==
  \E i \in 1..Len(given) : SecretKey(given[i].key) /\ ~given[i].sentinel

\* the trailing blanks of a text removed, table of the texts used
TrailingTrimmed(t) ==
  CASE t = " " -> ""
    [] t = "a " -> "a"
    [] t = " a " -> " a"
    [] OTHER -> t

UpdatesFromStdinOnly(o) ==
  \A i \in 1..Len(o.updates) :
    SecretKey(o.updates[i][1]) =>
      /\ o.updates[i][2] = Str(TrailingTrimmed(o.stdin))
      /\ \E j \in 1..Len(o.given) :
           o.given[j].key = o.updates[i][1] /\ o.given[j].sentinel

OtherGiven(given, i) == {given[j].key : j \in (1..Len(given)) \ {i}}

\* C8 as stated: after a successful cfg set, every key whose value (the
\* last one given for it) was the sentinel reads as the piped text with its
\* trailing blanks removed and its leading blanks kept, and secret keys are
\* set in no other way.
SentinelKeyReadsPipedText ==
  (out.op = "cfgSet" /\ out.error = "none") =>
    /\ \A i \in 1..Len(out.given) :
         (out.given[i].sentinel
            /\ \A j \in (i + 1)..Len(out.given) : out.given[j].key # out.given[i].key)
           => NodeAt(readLayer(files, out.layer), out.given[i].key)
                = Str(TrailingTrimmed(out.stdin))
    /\ UpdatesFromStdinOnly(out)

\* C8 amended: after a successful cfg set, every key whose value was the
\* sentinel and that no other entry of the same invocation names (nor a
\* prefix or an extension of it) reads as the piped text with its trailing
\* blanks removed and its leading blanks kept; a secret key is set in no
\* other way.
SentinelStoresPipedText ==
  (out.op = "cfgSet" /\ out.error = "none") =>
    /\ \A i \in 1..Len(out.given) :
         (out.given[i].sentinel
            /\ \A other \in OtherGiven(out.given, i) : ~Related(out.given[i].key, other))
           => NodeAt(readLayer(files, out.layer), out.given[i].key)
                = Str(TrailingTrimmed(out.stdin))
    /\ UpdatesFromStdinOnly(out)

\* `cfg set api.key -` with " a " piped in
PipedSecretStored ==
  /\ out.op = "cfgSet" /\ out.error = "none"
  /\ out.entries = <<[eq |-> FALSE, key |-> <<"api", "key">>, val |-> ""],
                     [eq |-> FALSE, key |-> <<>>, val |-> "-"]>>
  /\ out.stdin = " a "
  /\ NodeAt(readLayer(files, out.layer), <<"api", "key">>) = Str(" a")

(***************************************************************************)
(* Specification of the session store: the operations of SessionManager    *)
(* and SessionStorage, one process at a time                               *)
(***************************************************************************)
MaxIds == 2

MaxTime == 2

\* entries in all histories together
MaxAppends == 3

\* the id of a record file that was not written by create
ForeignId == 0

Ids == 1..MaxIds

RecordIds == {ForeignId} \cup Ids

RECURSIVE TotalEntries(_, _)
TotalEntries(st, ids) ==
  IF ids = {} THEN 0
  ELSE LET id == CHOOSE x \in ids : TRUE
       IN (IF IsSession(st[id]) THEN Len(st[id].history) ELSE 0)
            + TotalEntries(st, ids \ {id})

\* the prompt and the payload of the edits made, in the order in which
\* they are made: every second edit returns no image payload
Edits == <<<<"p1", "d1">>, <<"p2", NoData>>, <<"p3", "d3">>, <<"p4", NoData>>, <<"p5", "d5">>>>

NextEdit(st) == Edits[TotalEntries(st, DOMAIN st) + 1]

InputImages == {NoData, "img"}

InitSession ==
  /\ \E foreign \in {NoRecord, GarbageRecord, NoHistoryRecord} :
       store = [id \in RecordIds |-> IF id = ForeignId THEN foreign ELSE NoRecord]
  /\ locked \in {{}, {1}}
  /\ locked # {} => store[ForeignId] = GarbageRecord
  /\ clock = 1
  /\ nextId = 0
  /\ files = NoFiles
  /\ env = NoEnv
  /\ mTarget = MapOf(EmptyMap)
  /\ mSource = MapOf(EmptyMap)
  /\ repl = NoRepl
  /\ procs = NoProcs
  /\ out = Idle

\* time passes between two operations
Tick ==
  /\ clock < MaxTime
  /\ clock' = clock + 1
  /\ out' = [op |-> "tick"]
  /\ UNCHANGED <<store, nextId, locked, cfgVars, mergeVars, procVars>>

Create(maxHistory, inputImage) ==
  /\ nextId < MaxIds
  /\ \E order \in DirOrders([store EXCEPT ![nextId + 1] = [kind |-> "ok"]]) :
       LET r == create(store, locked, maxHistory, order, nextId + 1, clock, "m", inputImage)
       IN /\ store' = r.store
          /\ out' = [op |-> "create", id |-> nextId + 1, maxHistory |-> maxHistory,
                     model |-> "m", inputImage |-> inputImage, threw |-> r.threw,
                     session |-> r.session, pruned |-> r.pruned]
  /\ nextId' = nextId + 1
  /\ UNCHANGED <<clock, locked, cfgVars, mergeVars, procVars>>

GetSession(id) ==
  /\ out' = [op |-> "get", id |-> id, result |-> storageGet(store, id)]
  /\ UNCHANGED <<sessVars, cfgVars, mergeVars, procVars>>

AddEntry(id, prompt, imageData) ==
  /\ TotalEntries(store, DOMAIN store) < MaxAppends
  /\ LET r == addEntry(store, id, prompt, "o", imageData, clock)
     IN /\ store' = r.store
        /\ out' = [op |-> "addEntry", id |-> id, threw |-> r.threw, null |-> r.null]
  /\ UNCHANGED <<clock, nextId, locked, cfgVars, mergeVars, procVars>>

LastImageData(id) ==
  /\ out' = [op |-> "getLastImageData", id |-> id,
             result |-> getLastImageData(store, id)]
  /\ UNCHANGED <<sessVars, cfgVars, mergeVars, procVars>>

List ==
  /\ \E order \in DirOrders(store) :
       out' = [op |-> "list", result |-> storageList(store, order)]
  /\ UNCHANGED <<sessVars, cfgVars, mergeVars, procVars>>

Delete(id) ==
  /\ LET r == storageDelete(store, locked, id)
     IN /\ store' = r.store
        /\ out' = [op |-> "delete", id |-> id, threw |-> r.threw, deleted |-> r.deleted]
  /\ UNCHANGED <<clock, nextId, locked, cfgVars, mergeVars, procVars>>

Clear ==
  /\ LET r == storageClear(store, locked)
     IN /\ store' = r.store
        /\ out' = [op |-> "clear", count |-> r.count]
  /\ UNCHANGED <<clock, nextId, locked, cfgVars, mergeVars, procVars>>

Prune(maxHistory) ==
  /\ \E order \in DirOrders(store) :
       LET r == prune(store, locked, maxHistory, order)
       IN /\ store' = r.store
          /\ out' = [op |-> "prune", maxHistory |-> maxHistory, threw |-> r.threw,
                     pruned |-> r.pruned]
  /\ UNCHANGED <<clock, nextId, locked, cfgVars, mergeVars, procVars>>

NextSession ==
  \/ Tick
  \/ \E maxHistory \in Ids, inputImage \in InputImages : Create(maxHistory, inputImage)
  \/ \E id \in RecordIds : GetSession(id)
  \/ \E id \in RecordIds : AddEntry(id, NextEdit(store)[1], NextEdit(store)[2])
  \/ \E id \in RecordIds : LastImageData(id)
  \/ List
  \/ \E id \in RecordIds : Delete(id)
  \/ Clear
  \/ \E maxHistory \in Ids : Prune(maxHistory)

SpecSession == InitSession /\ [][NextSession]_vars

Sessions(st) == {id \in DOMAIN st : IsSession(st[id])}

\* C3: the history of a session that still exists has its earlier history
\* as a prefix: an operation of the store appends to it or leaves it as it
\* is, and a session goes only as a whole.
HistoryAppendOnly ==
  [][\A id \in Sessions(store) :
       \/ store'[id] = NoRecord
       \/ /\ IsSession(store'[id])
          /\ IsPrefix(store[id].history, store'[id].history)]_vars

\* a second entry was appended behind the first
SecondEntryAppended ==
  /\ out.op = "addEntry" /\ ~out.null /\ ~out.threw
  /\ Len(store[out.id].history) = 2
  /\ store[out.id].history[1].prompt = "p1"
  /\ store[out.id].history[2].prompt = "p2"

\* C4: lastImageData returns the payload of the last history entry when it
\* has one, otherwise the session's original input_image, otherwise
\* nothing; on a session without entries it returns the input_image.
LastImageDataFallsBackToInput ==
  (out.op = "getLastImageData" /\ IsSession(store[out.id])) =>
    LET session == store[out.id]
        n == Len(session.history)
    IN /\ ~out.result.threw
       /\ out.result.data =
            IF n > 0 /\ session.history[n].image_data # NoData
            THEN session.history[n].image_data
            ELSE session.input_image

PruneStep == out'.op = "prune" /\ ~out'.threw

\* C5: prune(maxHistory) deletes the sessions behind the maxHistory-th
\* place in the order by updated_at descending, and no other record, and
\* returns how many it deleted: of n sessions the min(n, maxHistory) kept
\* are retrievable and none of them is older than a deleted one, and with
\* n <= maxHistory nothing is deleted.
PruneKeepsMostRecent ==
  [][PruneStep =>
       LET before == Sessions(store)
           kept == Sessions(store')
           gone == before \ kept
           n == Cardinality(before)
           m == out'.maxHistory
       IN /\ kept \subseteq before
          /\ Cardinality(kept) = IF n <= m THEN n ELSE m
          /\ out'.pruned = Cardinality(gone)
          /\ \A id \in gone : store'[id] = NoRecord
          /\ \A id \in DOMAIN store : id \notin gone => store'[id] = store[id]
          /\ \A id \in kept : ~storageGet(store', id).null
          /\ \A k \in kept, g \in gone : store[k].updated_at >= store[g].updated_at]_vars

\* prune(1) has just removed the older of two sessions
PrunedTheOlder ==
  /\ out.op = "prune" /\ ~out.threw
  /\ out.maxHistory = 1 /\ out.pruned = 1
  /\ Cardinality(Sessions(store)) = 1
  /\ \E id \in Sessions(store) : store[id].updated_at = MaxTime

\* C10: list returns one summary for each record that holds a session and
\* none for the others, most recently updated first, and does so whatever
\* the other records hold.
ListSkipsCorruptAndSorts ==
  out.op = "list" =>
    LET r == out.result
    IN /\ {r[i].id : i \in 1..Len(r)} = Sessions(store)
       /\ Len(r) = Cardinality(Sessions(store))
       /\ \A i \in 1..Len(r) : r[i].updated_at = store[r[i].id].updated_at
       /\ \A i, j \in 1..Len(r) : i < j => r[i].updated_at >= r[j].updated_at

\* a listing of two sessions updated at different times beside a record
\* that is not a session
ListedBesideCorrupt ==
  /\ out.op = "list"
  /\ Len(out.result) = 2
  /\ out.result[1].updated_at > out.result[2].updated_at
  /\ store[ForeignId] # NoRecord

\* C11: every summary that list returns is the projection of the session
\* stored under its id: the same timestamps and model, history_count the
\* length of the stored history and last_prompt the prompt of its last
\* entry, absent for an empty history; a store holding nothing but one
\* session with three entries lists as exactly one summary with
\* history_count 3 and the third prompt.
ListProjectsStoredSessions ==
  out.op = "list" =>
    LET r == out.result
    IN /\ \A i \in 1..Len(r) :
            LET session == store[r[i].id]
                n == Len(session.history)
            IN /\ IsSession(session)
               /\ r[i].created_at = session.created_at
               /\ r[i].updated_at = session.updated_at
               /\ r[i].model = session.model
               /\ r[i].history_count = n
               /\ r[i].last_prompt = IF n = 0 THEN NoPrompt ELSE session.history[n].prompt
       /\ \A id \in Ids :
            (RecordFiles(store) = {id} /\ IsSession(store[id])
               /\ Len(store[id].history) = 3)
              => /\ Len(r) = 1
                 /\ r[1].id = id
                 /\ r[1].history_count = 3
                 /\ r[1].last_prompt = store[id].history[3].prompt

\* the listing after one create and three appended entries
ListedThreeEdits ==
  /\ out.op = "list"
  /\ nextId = 1
  /\ RecordFiles(store) = {1}
  /\ Len(out.result) = 1
  /\ out.result[1].history_count = 3
  /\ out.result[1].last_prompt = "p3"

\* C12: get returns absent for an id without a record (never stored,
\* deleted or pruned) and for a record whose text does not parse, and in
\* every other case the record as it was last written.
GetReturnsStoredOrAbsent ==
  out.op = "get" =>
    IF store[out.id] = NoRecord \/ store[out.id] = GarbageRecord
    THEN out.result.null
    ELSE ~out.result.null /\ out.result.session = store[out.id]

\* get on a record that does not parse gave absent
GetOnGarbageAbsent ==
  /\ out.op = "get"
  /\ store[out.id] = GarbageRecord
  /\ out.result.null

\* C13: addEntry on an id without a record, or whose record does not
\* parse, returns absent without throwing and leaves every record of the
\* store as it was.
AppendOnMissingWritesNothing ==
  [][(out'.op = "addEntry"
        /\ (store[out'.id] = NoRecord \/ store[out'.id] = GarbageRecord))
       => (out'.null /\ ~out'.threw /\ store' = store)]_vars

\* an append on the unparsable record, beside an existing session
AppendOnGarbageAbsent ==
  /\ out.op = "addEntry"
  /\ out.null
  /\ store[out.id] = GarbageRecord
  /\ Sessions(store) # {}

CreateStep == out'.op = "create" /\ ~out'.threw

\* the session that create returns: a new id, both timestamps the current
\* time, no history, the model and the input image given, and no other
\* record overwritten
CreateReturnsFresh ==
  LET session == out'.session
  IN /\ session.id = out'.id
     /\ store[session.id] = NoRecord
     /\ session.created_at = clock
     /\ session.updated_at = session.created_at
     /\ session.history = <<>>
     /\ session.model = out'.model
     /\ session.input_image = out'.inputImage
     /\ \A id \in DOMAIN store \ {session.id} :
          store'[id] = store[id] \/ store'[id] = NoRecord

\* C15 as stated: the session that create returns has an id that no
\* record of the store had, equal timestamps, an empty history and the
\* model and input image given, and it is the record stored under its id
\* when create returns.
CreatePersistsFreshSession ==
  [][CreateStep => (CreateReturnsFresh /\ store'[out'.id] = out'.session)]_vars

\* C16: when create returns, list gives at most max_history sessions, and
\* no session that the pruning of create removed was updated later than a
\* session that it kept.
RetentionCapAfterCreate ==
  [][CreateStep =>
       LET all == Sessions(store) \cup {out'.id}
           kept == Sessions(store')
           gone == all \ kept
           updated(id) == IF id = out'.id THEN out'.session.updated_at
                          ELSE store[id].updated_at
       IN /\ kept \subseteq all
          /\ \A order \in DirOrders(store') :
               Len(storageList(store', order)) <= out'.maxHistory
          /\ out'.pruned = Cardinality(gone)
          /\ \A g \in gone, k \in kept : updated(g) <= updated(k)]_vars

\* a create under a cap of one that removed the older session
CreateEvictedOlder ==
  /\ out.op = "create" /\ ~out.threw
  /\ out.maxHistory = 1 /\ out.pruned = 1
  /\ store[out.id] = out.session
  /\ out.session.created_at = MaxTime

(***************************************************************************)
(* Specification of the layer documents: `cfg init` and `cfg import` on    *)
(* the global and the project file                                         *)
(***************************************************************************)
\* a document with one key, as `cfg set` leaves it
LayerDocs == {Missing, Garbage, MapOf([api |-> MapOf([key |-> Str("v1")])])}

ImportPayloads ==
  {EmptyStdin, Garbage, Str("text"),
   MapOf(EmptyMap),
   MapOf([model |-> MapOf([default |-> Str(Pro)])]),
   MapOf([model |-> MapOf([thinking |-> Str("high")])]),
   MapOf([model |-> MapOf([default |-> Str("gpt")])]),
   MapOf([output |-> MapOf([resolution |-> Str("2k")])]),
   MapOf([model |-> MapOf([default |-> Str(Pro), colour |-> Str("red")])])}

InitLayers ==
  /\ \E g \in LayerDocs, pr \in LayerDocs :
       files = [global |-> g, project |-> pr, override |-> Missing]
  /\ env = NoEnv
  /\ store = EmptyMap
  /\ clock = 0
  /\ nextId = 0
  /\ locked = {}
  /\ mTarget = MapOf(EmptyMap)
  /\ mSource = MapOf(EmptyMap)
  /\ repl = NoRepl
  /\ procs = NoProcs
  /\ out = Idle

InitLayer(layer) ==
  /\ LET r == initConfig(files, layer)
     IN /\ files' = r.files
        /\ out' = [op |-> "init", layer |-> layer, ok |-> r.ok, path |-> r.path]
  /\ UNCHANGED <<env, sessVars, mergeVars, procVars>>

ImportDocument(stdin, layer) ==
  /\ LET r == importCommand(files, stdin, layer)
     IN /\ files' = r.files
        /\ out' = [op |-> "import", layer |-> layer, stdin |-> stdin, ok |-> r.ok,
                   path |-> r.path]
  /\ UNCHANGED <<env, sessVars, mergeVars, procVars>>

NextLayers ==
  \/ \E layer \in Layers : InitLayer(layer)
  \/ \E stdin \in ImportPayloads, layer \in Layers : ImportDocument(stdin, layer)

SpecLayers == InitLayers /\ [][NextLayers]_vars

\* C17: init on a layer whose file exists fails and leaves every file as
\* it was; on a layer without a file it writes the template to that
\* layer's path, touches no other file and returns the path, and a second
\* init on the layer then fails.
InitLayerOnlyWhenAbsent ==
  [][out'.op = "init" =>
       LET path == getWritableConfigPath(out'.layer)
       IN IF existsSync(files[path])
          THEN ~out'.ok /\ files' = files
          ELSE /\ out'.ok
               /\ out'.path = path
               /\ files'[path] = InitTemplate
               /\ \A other \in DOMAIN files \ {path} : files'[other] = files[other]
               /\ ~initConfig(files', out'.layer).ok]_vars

\* the second init on a layer, refused, the template still in place
InitRefusedOverTemplate ==
  /\ out.op = "init"
  /\ ~out.ok
  /\ files[out.layer] = InitTemplate

\* C18: an import whose payload the schema rejects leaves the layer's
\* document unchanged; an import that succeeds replaces the document by the
\* payload as given: reading the layer returns exactly the payload.
ImportWritesPayloadVerbatim ==
  [][out'.op = "import" =>
       IF out'.ok
       THEN readLayer(files', out'.layer) = out'.stdin
       ELSE files' = files]_vars

(***************************************************************************)
(* Specification of the resolver on inputs that the schema does not        *)
(* allow: values outside an allowed set and keys the schema does not have  *)
(***************************************************************************)
ValidateDocs ==
  {Missing, Garbage, Unreadable,
   MapOf(EmptyMap),
   MapOf([model |-> MapOf([default |-> Str(Pro), thinking |-> Str("minimal")])]),
   MapOf([output |-> MapOf([resolution |-> Str("2k"), aspect_ratio |-> Str("16:9")])]),
   MapOf([model |-> MapOf([default |-> Str("gpt")])]),
   MapOf([model |-> MapOf([default |-> Str(Pro), colour |-> Str("red")])]),
   MapOf([extra |-> MapOf(EmptyMap)])}

ValidateOverrides ==
  {Missing,
   MapOf([output |-> MapOf([resolution |-> Str("4k")])]),
   MapOf([output |-> MapOf([resolution |-> Str("4k"), colour |-> Str("red")])])}

\* for each variable that has an allowed set: its section, its field and
\* the set
EnumEnvVars ==
  {<<"BNN_MODEL", "model", "default", SupportedModels>>,
   <<"BNN_THINKING", "model", "thinking", ThinkingLevels>>,
   <<"BNN_RESOLUTION", "output", "resolution", Resolutions>>,
   <<"BNN_ASPECT_RATIO", "output", "aspect_ratio", AspectRatios>>}

\* each of them unset, with a value of its set, and with one outside it
ValidateEnvs ==
  {[NoEnv EXCEPT !["BNN_MODEL"] = md, !["BNN_THINKING"] = th,
                 !["BNN_RESOLUTION"] = rs, !["BNN_ASPECT_RATIO"] = ar] :
     md \in {"", Flash, "gpt"}, th \in {"", "high", "max"},
     rs \in {"", "512px", "8k"}, ar \in {"", "4:3", "7:5"}}

InitValidate ==
  /\ \E g \in ValidateDocs, pr \in ValidateDocs, ov \in ValidateOverrides :
       files = [global |-> g, project |-> pr, override |-> ov]
  /\ env \in ValidateEnvs
  /\ store = EmptyMap
  /\ clock = 0
  /\ nextId = 0
  /\ locked = {}
  /\ mTarget = MapOf(EmptyMap)
  /\ mSource = MapOf(EmptyMap)
  /\ repl = NoRepl
  /\ procs = NoProcs
  /\ out = Idle

SpecValidate == InitValidate /\ [][NextResolve]_vars

\* C19: a variable with an allowed value set is applied when its value is
\* in the set; a value outside the set is ignored, the field keeps the value
\* that the sources give without that variable, and resolve fails only
\* when it fails without the environment.
EnvAppliedOnlyWhenAllowed ==
  out.op = "resolve" =>
    /\ out.result.ok = loadConfig(files, NoEnv, out.custom).ok
    /\ out.result.ok =>
         \A v \in EnumEnvVars :
           IsSet(env, v[1]) =>
             ValueAt(out.result.value, v[2], v[3])
               = IF env[v[1]] \in v[4] THEN Str(env[v[1]])
                 ELSE ValueAt(loadConfig(files, [env EXCEPT ![v[1]] = ""], out.custom).value,
                              v[2], v[3])

\* the layers that one resolve reads
Consulted(custom) == {"global", "project"} \cup (IF custom = NoPath THEN {} ELSE {custom})

HasUnknownKey(doc) ==
  /\ IsMap(doc)
  /\ \E section \in DOMAIN doc.m :
       \/ section \notin Sections
       \/ /\ IsMap(doc.m[section])
          /\ \E field \in DOMAIN doc.m[section].m : field \notin SchemaFields[section]

\* C20: when a layer that resolve reads holds a key that the schema does
\* not define, resolve fails and names a layer whose document is at fault.
UnknownKeyRejected ==
  out.op = "resolve" =>
    \A layer \in Consulted(out.custom) :
      HasUnknownKey(files[layer]) =>
        /\ ~out.result.ok
        /\ out.result.source \in Consulted(out.custom)
        /\ \/ HasUnknownKey(files[out.result.source])
           \/ loadTomlFile(files[out.result.source]).ok = FALSE

\* C26: a delete that fails inside prune is skipped: prune, and the create
\* that calls it, return normally, every other session behind the cap is
\* deleted, and the count is the number of sessions deleted.
PruneSkipsFailedDeletes ==
  [][(out'.op = "prune" \/ out'.op = "create") =>
       LET before == Sessions(store) \cup (IF out'.op = "create" THEN {out'.id} ELSE {})
           gone == before \ Sessions(store')
           surplus == Cardinality(before) - out'.maxHistory
       IN /\ ~out'.threw
          /\ out'.pruned = Cardinality(gone)
          /\ gone \cap locked = {}
          /\ Cardinality(gone) >= surplus - Cardinality(before \cap locked)]_vars

\* C28: an addEntry that completes appends exactly one entry to the end of
\* the target's history and sets its updated_at; the target's id,
\* created_at, model and input_image stay as they were, and so does every
\* other record of the store.
AppendTouchesOnlyHistory ==
  [][(out'.op = "addEntry" /\ ~out'.null /\ ~out'.threw) =>
       LET old == store[out'.id]
           new == store'[out'.id]
       IN /\ IsSession(old) /\ IsSession(new)
          /\ Len(new.history) = Len(old.history) + 1
          /\ SubSeq(new.history, 1, Len(old.history)) = old.history
          /\ new.id = old.id
          /\ new.created_at = old.created_at
          /\ new.model = old.model
          /\ new.input_image = old.input_image
          /\ \A id \in DOMAIN store \ {out'.id} : store'[id] = store[id]]_vars

\* an entry appended, later than the creation, beside another session
AppendedBesideOther ==
  /\ out.op = "addEntry" /\ ~out.null /\ ~out.threw
  /\ store[out.id].created_at < store[out.id].updated_at
  /\ store[out.id].input_image = "img"
  /\ Cardinality(Sessions(store)) = 2

\* a document that is there and readable and that parse or the schema rejects
FailsToParse(file) ==
  /\ existsSync(file)
  /\ file # Unreadable
  /\ (file = Garbage \/ ~ConfigSchemaParse(file).ok)

\* C21 as stated: a source that is absent or cannot be read is skipped and
\* the others are merged as if it were not there; a source that is there
\* and fails to parse or validate makes resolve fail, naming such a source
\* and returning no configuration.
UnreadableSkippedBrokenFatal ==
  out.op = "resolve" =>
    LET broken == {layer \in Consulted(out.custom) : FailsToParse(files[layer])}
        readable == [layer \in DOMAIN files |->
                       IF files[layer] = Unreadable THEN Missing ELSE files[layer]]
    IN IF broken = {}
       THEN /\ out.result.ok
            /\ out.result.value = loadConfig(readable, env, out.custom).value
       ELSE /\ ~out.result.ok
            /\ out.result.source \in broken
            /\ "value" \notin DOMAIN out.result

\* the documents that the layers read give after validation, lowest first
ParsedLayers(custom) ==
  LET given(layer) == IF existsSync(files[layer])
                      THEN <<ConfigSchemaParse(files[layer]).value>> ELSE <<>>
  IN given("global") \o given("project")
       \o (IF custom = NoPath THEN <<>> ELSE given(custom))

\* C21: a source that is absent is skipped and the others are merged over
\* the defaults, the environment last; a source that is there and cannot
\* be read, or fails to parse or validate, makes resolve fail, naming the
\* first such source and returning no configuration.
AbsentSkippedBrokenFatal ==
  out.op = "resolve" =>
    LET failing == {layer \in Consulted(out.custom) :
                      files[layer] = Unreadable \/ FailsToParse(files[layer])}
    IN IF failing = {}
       THEN /\ out.result.ok
            /\ out.result.value
                 = deepMerge(MapOf(EmptyMap),
                             <<DEFAULT_CONFIG>> \o ParsedLayers(out.custom)
                               \o <<loadEnvConfig(env)>>)
       ELSE /\ ~out.result.ok
            /\ out.result.source
                 = (IF "global" \in failing THEN "global"
                    ELSE IF "project" \in failing THEN "project" ELSE out.custom)
            /\ "value" \notin DOMAIN out.result

\* the global file is absent and the invalid project file is named
BrokenProjectNamed ==
  /\ out.op = "resolve"
  /\ files["global"] = Missing
  /\ FailsToParse(files["project"])
  /\ ~out.result.ok
  /\ out.result.source = "project"

(***************************************************************************)
(* The supported lists and their validators, applied to one text           *)
(***************************************************************************)
SUPPORTED_MODELS == <<"gemini-3.1-flash-image-preview", "gemini-3-pro-image-preview">>

THINKING_LEVELS == <<"minimal", "high", "dynamic">>

ASPECT_RATIOS == <<"1:1", "1:4", "1:8", "2:3", "3:2", "3:4", "4:1", "4:3", "4:5",
                   "5:4", "8:1", "9:16", "16:9", "21:9">>

RESOLUTIONS == <<"512px", "1k", "2k", "4k">>

\* Array.prototype.includes
includes(array, x) == \E i \in 1..Len(array) : array[i] = x

\* the list of models before the legacy models were removed
validateModelLegacy(model) ==
  includes(<<"gemini-2.0-flash-exp", "gemini-3-pro-image-preview",
             "imagen-3.0-generate-002">>, model)

validateModel(model) == includes(SUPPORTED_MODELS, model)

validateAspectRatio(ratio) == includes(ASPECT_RATIOS, ratio)

validateResolution(res) == includes(RESOLUTIONS, res)

validateThinkingLevel(level) == includes(THINKING_LEVELS, level)

\* the texts tried: the members of the four lists and texts of none
ValidatorInputs ==
  SupportedModels \cup ThinkingLevels \cup AspectRatios \cup Resolutions
    \cup {"", "not-a-model", "gemini-2.0-flash-exp", "imagen-3.0-generate-002",
          "512", "8k", "1K", "10:1", "1:10", "low", "off", "High"}

Validators == {"model", "resolution", "aspectRatio", "thinkingLevel"}

InitValidators ==
  /\ mSource \in {Str(text) : text \in ValidatorInputs}
  /\ mTarget = MapOf(EmptyMap)
  /\ files = EmptyMap
  /\ env = EmptyMap
  /\ store = EmptyMap
  /\ clock = 0
  /\ nextId = 0
  /\ locked = {}
  /\ repl = NoRepl
  /\ procs = NoProcs
  /\ out = Idle

Validate(validator) ==
  /\ out' = [op |-> "validate", validator |-> validator, input |-> mSource.v,
             result |-> CASE validator = "model" -> validateModel(mSource.v)
                          [] validator = "resolution" -> validateResolution(mSource.v)
                          [] validator = "aspectRatio" -> validateAspectRatio(mSource.v)
                          [] validator = "thinkingLevel" -> validateThinkingLevel(mSource.v)]
  /\ UNCHANGED <<cfgVars, sessVars, mergeVars, procVars>>

NextValidators == \E validator \in Validators : Validate(validator)

SpecValidators == InitValidators /\ [][NextValidators]_vars

\* C30: each validator answers true for the members of its supported list
\* and false for every other text; the removed models gemini-2.0-flash-exp
\* and imagen-3.0-generate-002, the resolutions 512 and 8k, the ratios 10:1
\* and 1:10 and the thinking levels low and off are rejected.
ValidatorsAcceptExactlySupported ==
  out.op = "validate" =>
    /\ out.result =
         (out.input \in
            CASE out.validator = "model" ->
                   {"gemini-3.1-flash-image-preview", "gemini-3-pro-image-preview"}
              [] out.validator = "resolution" -> {"512px", "1k", "2k", "4k"}
              [] out.validator = "aspectRatio" ->
                   {"1:1", "1:4", "1:8", "2:3", "3:2", "3:4", "4:1", "4:3", "4:5",
                    "5:4", "8:1", "9:16", "16:9", "21:9"}
              [] out.validator = "thinkingLevel" -> {"minimal", "high", "dynamic"})
    /\ out.input \in {"gemini-2.0-flash-exp", "imagen-3.0-generate-002", "512", "8k",
                      "10:1", "1:10", "low", "off"}
         => ~out.result

\* a removed legacy model was given to validateModel and rejected
LegacyModelRejected ==
  /\ out.op = "validate"
  /\ out.validator = "model"
  /\ out.input = "gemini-2.0-flash-exp"
  /\ ~out.result

(***************************************************************************)
(* The edit command (runEdit) and the interactive loop (startRepl).  The   *)
(* edit capability is external: it returns an image payload or throws, and *)
(* writing the image file can throw.  An input line is kept as             *)
(*   pad   : whether it has leading or trailing whitespace                 *)
(*   words : its words (split at whitespace), none for a blank line        *)
(***************************************************************************)
\* a value that `||` and `if` take as true
Truthy(n) == n.k = "val" /\ n.ty \in {"string", "number"} /\ n.v \notin {"", "0"}

TextOr(n, fallback) == IF Truthy(n) THEN n.v ELSE fallback

\* the number that a number text stands for
NumberOf(text) ==
  CASE text = "1" -> 1 [] text = "2" -> 2 [] text = "3" -> 3 [] text = "50" -> 50

\* the payloads that the edit capability returns, one after the other
Payloads == <<"d1", "d2", "d3", "d4", "d5", "d6">>

ResultPayload(st) == Payloads[TotalEntries(st, DOMAIN st) + 1]

EditResults == {"ok", "editThrows", "writeThrows"}

NoOutput == <<>>

\* the state of startRepl before the first prompt
startRepl(st, sessionId) ==
  LET g == storageGet(st, sessionId)
      resumed == ~g.null /\ IsSession(g.session) /\ Len(g.session.history) > 0
  IN [loop |-> "awaiting",
      sessionId |-> sessionId,
      lastOutput |-> IF resumed THEN g.session.history[Len(g.session.history)].output
                     ELSE NoOutput,
      editCount |-> IF resumed THEN Len(g.session.history) ELSE 0,
      undoStack |-> <<>>]

\* options.session ? sessionManager.get(options.session) : null
findSession(st, opts) ==
  IF opts.session.given THEN storageGet(st, opts.session.id) ELSE [null |-> TRUE]

inputImageUnchecked(opts) == FALSE

\* options.image && !existsSync(options.image)
inputImageMissing(opts) == opts.image = "absent"

sessionNotFoundUnlessImage(opts, found) ==
  opts.session.given /\ found.null /\ opts.image = "none"

\* options.session && !session
sessionNotFound(opts, found) == opts.session.given /\ found.null

\* how runEdit ends: the exit code (1 with crashed for an uncaught error),
\* whether the edit capability was called and with which image, the store,
\* and the session of the interactive loop when one is started
Ended(code, crashed, st) ==
  [exit |-> code, crashed |-> crashed, called |-> FALSE, inputImage |-> NoData,
   created |-> FALSE, store |-> st, interactive |-> FALSE, sessionId |-> ForeignId]

editAndRecordBeforeWrite(st, opts, result, sessionId, inputImage, created, now) ==
  LET called == [Ended(4, FALSE, st) EXCEPT !.called = TRUE, !.inputImage = inputImage,
                                            !.created = created, !.sessionId = sessionId]
      added == addEntry(st, sessionId, opts.prompt, <<"out", opts.prompt>>,
                        ResultPayload(st), now)
  IN IF result = "editThrows" \/ added.threw THEN called
     ELSE IF result = "writeThrows" THEN [called EXCEPT !.store = added.store]
     ELSE [called EXCEPT !.exit = 0, !.store = added.store,
                         !.interactive = opts.interactive]

\* from the call of the edit capability on
editAndRecord(st, opts, result, sessionId, inputImage, created, now) ==
  LET called == [Ended(4, FALSE, st) EXCEPT !.called = TRUE, !.inputImage = inputImage,
                                            !.created = created, !.sessionId = sessionId]
      added == addEntry(st, sessionId, opts.prompt, <<"out", opts.prompt>>,
                        ResultPayload(st), now)
  IN IF result # "ok" \/ added.threw THEN called
     ELSE [called EXCEPT !.exit = 0, !.store = added.store,
                         !.interactive = opts.interactive]

\* loaded is what loadConfig(options.config) gives
runEdit(loaded, e, st, lk, opts, result, order, id, now) ==
  IF ~loaded.ok THEN Ended(1, TRUE, st)
  ELSE LET config == loaded.value
           apiKey == IF IsSet(e, "BNN_API_KEY") THEN e["BNN_API_KEY"]
                     ELSE TextOr(ValueAt(config, "api", "key"), "")
           maxHistory == NumberOf(TextOr(ValueAt(config, "session", "max_history"), "50"))
           model == IF opts.model # "" THEN opts.model
                    ELSE TextOr(ValueAt(config, "model", "default"),
                                "gemini-3.1-flash-image-preview")
           resolution == IF opts.resolution # "" THEN opts.resolution
                         ELSE TextOr(ValueAt(config, "output", "resolution"), "1k")
           aspectRatio == IF opts.aspectRatio # "" THEN opts.aspectRatio
                          ELSE TextOr(ValueAt(config, "output", "aspect_ratio"), "")
           thinking == IF opts.thinking # "" THEN opts.thinking
                       ELSE TextOr(ValueAt(config, "model", "thinking"), "")
           found == findSession(st, opts)
       IN IF apiKey = "" THEN Ended(4, FALSE, st)
          ELSE IF opts.image = "none" /\ ~opts.session.given THEN Ended(2, FALSE, st)
          ELSE IF ~validateModel(model) THEN Ended(2, FALSE, st)
          ELSE IF ~validateResolution(resolution) THEN Ended(2, FALSE, st)
          ELSE IF aspectRatio # "" /\ ~validateAspectRatio(aspectRatio)
               THEN Ended(2, FALSE, st)
          ELSE IF thinking # "" /\ ~validateThinkingLevel(thinking)
               THEN Ended(2, FALSE, st)
          ELSE IF inputImageMissing(opts) THEN Ended(6, FALSE, st)
          ELSE IF sessionNotFound(opts, found) THEN Ended(5, FALSE, st)
          ELSE IF ~found.null
               THEN LET last == getLastImageData(st, opts.session.id)
                    IN IF last.threw THEN Ended(1, TRUE, st)
                       ELSE IF last.data = NoData THEN Ended(1, FALSE, st)
                       ELSE editAndRecord(st, opts, result, opts.session.id,
                                          last.data, FALSE, now)
               ELSE LET made == create(st, lk, maxHistory, order, id, now, model, "img")
                    IN IF made.threw
                       THEN [Ended(1, TRUE, made.store) EXCEPT !.created = TRUE]
                       ELSE editAndRecord(made.store, opts, result, id, "img", TRUE, now)

(***************************************************************************)
(* One pass of the loop of startRepl.  A line is                           *)
(*   pad   : whether it has leading or trailing whitespace                 *)
(*   slash : whether its first word begins with "/"                        *)
(*   text  : the first word, after the "/" if there is one                 *)
(*   args  : the words after the first                                     *)
(***************************************************************************)
toLowerCase(text) ==
  CASE text = "Q" -> "q"
    [] text = "QUIT" -> "quit"
    [] text = "Undo" -> "undo"
    [] OTHER -> text

isBlankUntrimmed(line) ==
  ~line.pad /\ ~line.slash /\ line.text = "" /\ line.args = <<>>

\* !input.trim()
isBlank(line) == ~line.slash /\ line.text = "" /\ line.args = <<>>

parseReplInput(line) ==
  IF line.slash
  THEN [isCommand |-> TRUE, command |-> toLowerCase(line.text), args |-> line.args,
        prompt |-> NoPrompt]
  ELSE [isCommand |-> FALSE, command |-> "", args |-> <<>>, prompt |-> line.text]

REPL_COMMANDS ==
  <<[name |-> "help", aliases |-> {"h", "?"}],
    [name |-> "save", aliases |-> {"s"}],
    [name |-> "undo", aliases |-> {"u"}],
    [name |-> "history", aliases |-> {"hist"}],
    [name |-> "quit", aliases |-> {"q", "exit"}]>>

NoCommand == "none"

findCommand(input) ==
  LET lower == toLowerCase(input)
      hits == {i \in DOMAIN REPL_COMMANDS :
                 REPL_COMMANDS[i].name = lower \/ lower \in REPL_COMMANDS[i].aliases}
  IN IF hits = {} THEN NoCommand
     ELSE REPL_COMMANDS[CHOOSE i \in hits : \A j \in hits : i <= j].name

\* what one pass gives: the state of the loop, the store, and whether the
\* edit capability was called, with which image and which prompt
Pass(st, r) ==
  [repl |-> r, store |-> st, called |-> FALSE, inputImage |-> NoData,
   prompt |-> NoPrompt, appended |-> FALSE]

\* context.popUndo()
popUndo(r) ==
  [r EXCEPT !.undoStack = IF @ = <<>> THEN @ ELSE SubSeq(@, 1, Len(@) - 1)]

dropLastEntry(st, sessionId) ==
  IF IsSession(st[sessionId]) /\ Len(st[sessionId].history) > 0
  THEN [st EXCEPT ![sessionId].history = SubSeq(@, 1, Len(@) - 1)]
  ELSE st

undoCommandDropsEntry(st, r) == Pass(dropLastEntry(st, r.sessionId), popUndo(r))

undoCommand(st, r) == Pass(st, popUndo(r))

quitCommandContinues(st, r) == Pass(st, r)

\* the handler returns true and the loop closes the reader and returns
quitCommand(st, r) == Pass(st, [r EXCEPT !.loop = "done"])

\* help, save and history print and return false
printCommand(st, r) == Pass(st, r)

commandLine(st, r, parsed) ==
  LET name == findCommand(parsed.command)
  IN CASE name = NoCommand -> Pass(st, r)
       [] name = "undo" -> undoCommand(st, r)
       [] name = "quit" -> quitCommand(st, r)
       [] OTHER -> printCommand(st, r)

\* the image that a prompt line edits
lineInputFirstImage(st, sessionId) ==
  LET g == storageGet(st, sessionId)
  IN IF g.null \/ ~IsSession(g.session) THEN getLastImageData(st, sessionId)
     ELSE [threw |-> FALSE, data |-> g.session.input_image]

lineInput(st, sessionId) == getLastImageData(st, sessionId)

promptLine(st, r, prompt, result, now) ==
  LET last == lineInput(st, r.sessionId)
      count == r.editCount + 1
      outputPath == <<"edit", count, prompt>>
      called == [Pass(st, r) EXCEPT !.called = TRUE, !.inputImage = last.data,
                                    !.prompt = prompt]
      added == addEntry(st, r.sessionId, prompt, outputPath, ResultPayload(st), now)
  IN IF last.threw THEN Pass(st, [r EXCEPT !.loop = "done"])
     ELSE IF last.data = NoData THEN Pass(st, r)
     ELSE IF result = "editThrows" THEN called
     ELSE IF result = "writeThrows" \/ added.threw
          THEN [called EXCEPT !.repl.editCount = count]
     ELSE [called EXCEPT !.repl.editCount = count, !.repl.lastOutput = outputPath,
                         !.store = added.store, !.appended = ~added.null]

replLine(st, r, line, result, now) ==
  IF isBlank(line) THEN Pass(st, r)
  ELSE LET parsed == parseReplInput(line)
       IN IF parsed.isCommand THEN commandLine(st, r, parsed)
          ELSE promptLine(st, r, parsed.prompt, result, now)

(***************************************************************************)
(* Specification of the edit command with its interactive loop: one        *)
(* process at a time runs `bnn edit`; while its loop waits for a line the  *)
(* user types one or closes the input.  Another process may delete a       *)
(* session in between.                                                     *)
(***************************************************************************)
\* sessions that the edit command creates
MaxSessions == 1

\* edits recorded in all sessions together
MaxEdits == 3

\* the ids of the record files: the foreign one, those of the sessions
\* created, and one that is never there
EditIds == ForeignId..(MaxSessions + 1)

NoSessionOption == [given |-> FALSE, id |-> ForeignId]

SessionOptions == {NoSessionOption} \cup {[given |-> TRUE, id |-> id] : id \in EditIds}

PlainOptions ==
  [prompt : {"p0"}, session : SessionOptions, image : {"none", "exists", "absent"},
   model : {""}, resolution : {""}, aspectRatio : {""}, thinking : {""},
   interactive : BOOLEAN]

\* a session that is not there is asked for, with one option outside its
\* supported set
InvalidOptions ==
  LET o == [prompt |-> "p0", session |-> [given |-> TRUE, id |-> ForeignId],
            image |-> "exists", model |-> "", resolution |-> "", aspectRatio |-> "",
            thinking |-> "", interactive |-> FALSE]
  IN {[o EXCEPT !.model = "gpt"], [o EXCEPT !.resolution = "8k"],
      [o EXCEPT !.aspectRatio = "5:5"], [o EXCEPT !.thinking = "extreme"]}

EditOptions == PlainOptions \cup InvalidOptions

CommandWords == {"quit", "Q", "exit", "undo", "u", "help", "save", "history", "nope", ""}

ReplLines ==
  [pad : BOOLEAN, slash : {FALSE}, text : {"", "p1"}, args : {<<>>}]
    \cup [pad : {FALSE}, slash : {TRUE}, text : CommandWords, args : {<<>>}]
    \cup [pad : {TRUE}, slash : {TRUE}, text : {"quit", "undo"}, args : {<<>>}]
    \cup [pad : {FALSE}, slash : {TRUE}, text : {"save", "quit"}, args : {<<"x">>}]

EditDocs == {Missing, Garbage, MapOf([session |-> MapOf([max_history |-> Num("1")])])}

InitEdit ==
  /\ \E foreign \in {GarbageRecord, NoHistoryRecord} :
       store = [id \in EditIds |-> IF id = ForeignId THEN foreign ELSE NoRecord]
  /\ locked = {}
  /\ clock = 1
  /\ nextId = 0
  /\ \E doc \in EditDocs : files = [NoFiles EXCEPT !["project"] = doc]
  /\ \E key \in {"", "k"} : env = [NoEnv EXCEPT !["BNN_API_KEY"] = key]
  /\ mTarget = MapOf(EmptyMap)
  /\ mSource = MapOf(EmptyMap)
  /\ repl = NoRepl
  /\ procs = NoProcs
  /\ out = Idle

RunEdit(loaded, opts, result) ==
  /\ repl.loop # "awaiting"
  /\ LET id == IF nextId < MaxSessions THEN nextId + 1 ELSE MaxSessions
     IN \E order \in DirOrders([store EXCEPT ![id] = [kind |-> "ok"]]) :
          LET r == runEdit(loaded, env, store, locked, opts, result, order, id, clock)
          IN /\ r.called \/ result = "ok"
             /\ r.created => nextId < MaxSessions
             /\ TotalEntries(r.store, DOMAIN r.store) <= MaxEdits
             /\ store' = r.store
             /\ nextId' = IF r.created THEN nextId + 1 ELSE nextId
             /\ repl' = IF r.interactive THEN startRepl(r.store, r.sessionId) ELSE NoRepl
             /\ out' = [op |-> "edit", opts |-> opts, result |-> result,
                        exit |-> r.exit, crashed |-> r.crashed, called |-> r.called,
                        inputImage |-> r.inputImage, created |-> r.created,
                        sessionId |-> r.sessionId]
  /\ UNCHANGED <<clock, locked, cfgVars, mergeVars, procs>>

\* `bnn edit`: the configuration is loaded first, whatever the options
EditCommand ==
  LET loaded == loadConfig(files, env, NoPath)
  IN \E opts \in EditOptions, result \in EditResults : RunEdit(loaded, opts, result)

ReplLine(line, result) ==
  /\ repl.loop = "awaiting"
  /\ LET r == replLine(store, repl, line, result, clock)
     IN /\ r.called \/ result = "ok"
        /\ TotalEntries(r.store, DOMAIN r.store) <= MaxEdits
        /\ r.repl.editCount <= MaxEdits
        /\ store' = r.store
        /\ repl' = r.repl
        /\ out' = [op |-> "line", line |-> line, result |-> result,
                   called |-> r.called, inputImage |-> r.inputImage,
                   prompt |-> r.prompt, appended |-> r.appended]
  /\ UNCHANGED <<clock, nextId, locked, cfgVars, mergeVars, procs>>

\* the input ends while the loop waits: the question is never answered and
\* the process ends
EndOfInput ==
  /\ repl.loop = "awaiting"
  /\ repl' = [repl EXCEPT !.loop = "done"]
  /\ out' = [op |-> "eof"]
  /\ UNCHANGED <<sessVars, cfgVars, mergeVars, procs>>

\* `bnn session delete <id>` from another terminal
DeleteElsewhere(id) ==
  /\ LET r == storageDelete(store, locked, id)
     IN /\ r.deleted
        /\ store' = r.store
        /\ out' = [op |-> "delete", id |-> id]
  /\ UNCHANGED <<clock, nextId, locked, cfgVars, mergeVars, procVars>>

NextEditLoop ==
  \/ EditCommand
  \/ \E line \in ReplLines, result \in EditResults : ReplLine(line, result)
  \/ EndOfInput
  \/ \E id \in 1..MaxSessions : DeleteElsewhere(id)

SpecEdit == InitEdit /\ [][NextEditLoop]_vars


\* a step of the edit command that names, with --session, an id whose
\* record is missing or is not JSON
AbsentSessionAsked ==
  /\ out'.op = "edit"
  /\ out'.opts.session.given
  /\ store[out'.opts.session.id] \in {NoRecord, GarbageRecord}

NothingElseDone == ~out'.called /\ ~out'.created /\ store' = store /\ repl'.loop = "off"

\* C29 as stated: edit --session on a missing or corrupt record always ends
\* with exit code 5, and nothing is created, appended or edited
AbsentSessionAlwaysExitFive ==
  [][AbsentSessionAsked => (out'.exit = 5 /\ NothingElseDone)]_vars

\* the checks that runEdit makes before it looks the session up: the
\* configuration loads, an API key is set, the model, resolution, aspect
\* ratio and thinking level are supported and the --image file exists
EarlierChecksPass(opts) ==
  LET loaded == loadConfig(files, env, NoPath)
      setting(option, section, field, fallback) ==
        IF option # "" THEN option
        ELSE TextOr(ValueAt(loaded.value, section, field), fallback)
  IN /\ loaded.ok
     /\ IsSet(env, "BNN_API_KEY") \/ Truthy(ValueAt(loaded.value, "api", "key"))
     /\ validateModel(setting(opts.model, "model", "default",
                              "gemini-3.1-flash-image-preview"))
     /\ validateResolution(setting(opts.resolution, "output", "resolution", "1k"))
     /\ LET ratio == setting(opts.aspectRatio, "output", "aspect_ratio", "")
        IN ratio = "" \/ validateAspectRatio(ratio)
     /\ LET level == setting(opts.thinking, "model", "thinking", "")
        IN level = "" \/ validateThinkingLevel(level)
     /\ opts.image # "absent"

\* C29: edit --session on a record that is missing or is not JSON creates no
\* session, appends no entry and does not call the edit capability, with or
\* without --image; it ends with exit code 5 whenever the checks made before
\* the lookup pass
AbsentSessionNothingDone ==
  [][AbsentSessionAsked =>
       /\ NothingElseDone
       /\ EarlierChecksPass(out'.opts) => (out'.exit = 5 /\ ~out'.crashed)]_vars

NotFoundDespiteImage ==
  /\ out.op = "edit"
  /\ out.opts.session.given
  /\ out.opts.image = "exists"
  /\ store[out.opts.session.id] = GarbageRecord
  /\ out.exit = 5

\* a pass of the loop: a line is typed, or the input ends
LoopStep == repl.loop = "awaiting" /\ out'.op \in {"line", "eof"}

LineStep == repl.loop = "awaiting" /\ out'.op = "line"

QuitTyped(line) == line.slash /\ toLowerCase(line.text) \in {"quit", "q", "exit"}

\* each session of st is in st2 with a history that begins with its own
SessionsKept(st, st2) ==
  \A id \in DOMAIN st :
    IsSession(st[id]) =>
      /\ IsSession(st2[id])
      /\ Len(st2[id].history) >= Len(st[id].history)
      /\ SubSeq(st2[id].history, 1, Len(st[id].history)) = st[id].history

WhitespaceOnly(line) == ~line.slash /\ line.text = "" /\ line.args = <<>>

\* C24: an empty line and a line of whitespace change neither the store nor
\* the state of the loop (last output, edit counter, awaiting input), and no
\* edit call is made
BlankLineChangesNothing ==
  [][(LineStep /\ WhitespaceOnly(out'.line)) =>
       (repl' = repl /\ store' = store /\ ~out'.called /\ ~out'.appended)]_vars

WhitespaceLineIgnored ==
  /\ out.op = "line"
  /\ WhitespaceOnly(out.line)
  /\ out.line.pad
  /\ repl.loop = "awaiting"
  /\ repl.editCount >= 1
  /\ getLastImageData(store, repl.sessionId).data # NoData

\* C25: a line that begins with "/" (undo, help, save, history, quit, under
\* each of their names, and an unknown command) leaves the store as it is,
\* and with it the value of getLastImageData of the session; no edit call
\* is made
CommandsKeepRecord ==
  [][(LineStep /\ out'.line.slash) =>
       /\ store' = store
       /\ getLastImageData(store', repl.sessionId) = getLastImageData(store, repl.sessionId)
       /\ ~out'.called]_vars

UndoKeptHistory ==
  /\ out.op = "line"
  /\ out.line.slash
  /\ toLowerCase(out.line.text) \in {"undo", "u"}
  /\ repl.loop = "awaiting"
  /\ IsSession(store[repl.sessionId])
  /\ Len(store[repl.sessionId].history) >= 2

\* a line that is neither blank nor a command
PromptTyped(line) == ~line.slash /\ line.text # ""

\* C23: a prompt line calls the edit capability exactly when the session
\* has last image data, with that payload and the trimmed line as prompt;
\* when the call and the write of the image succeed, one entry with the
\* prompt, the generated path and the returned payload is appended, the
\* last output is that path, the loop awaits input and the returned payload
\* is the session's last image data; otherwise the store and the last
\* output keep their values
PromptLineEditsLastImage ==
  [][(LineStep /\ PromptTyped(out'.line)) =>
       LET sid == repl.sessionId
           last == getLastImageData(store, sid)
           path == <<"edit", repl.editCount + 1, out'.line.text>>
           entry == [prompt |-> out'.line.text, output |-> path, timestamp |-> clock,
                     image_data |-> ResultPayload(store)]
       IN /\ out'.called <=> (~last.threw /\ last.data # NoData)
          /\ out'.called => (out'.inputImage = last.data /\ out'.prompt = out'.line.text)
          /\ out'.appended <=> (out'.called /\ out'.result = "ok")
          /\ out'.appended =>
               /\ store' = [store EXCEPT ![sid].history = Append(@, entry),
                                         ![sid].updated_at = clock]
               /\ repl' = [repl EXCEPT !.editCount = @ + 1, !.lastOutput = path]
               /\ getLastImageData(store', sid).data = ResultPayload(store)
          /\ ~out'.appended =>
               (store' = store /\ repl'.lastOutput = repl.lastOutput)]_vars

SecondLineEditsFirstResult ==
  /\ out.op = "line"
  /\ out.appended
  /\ repl.loop = "awaiting"
  /\ LET history == store[repl.sessionId].history
     IN /\ Len(history) = 3
        /\ history[2].output[1] = "edit"
        /\ out.inputImage = history[2].image_data
        /\ history[3].image_data # history[2].image_data

(***************************************************************************)
(* Specification of two invocations that run at the same time.  Each reads *)
(* a document, computes the new one and writes it; the files are not       *)
(* locked, so the read and the write of one invocation can have the read   *)
(* and the write of the other between them.                                *)
(***************************************************************************)
Procs == {1, 2}

IdleProc == [pc |-> "idle"]

RaceOps ==
  {[kind |-> "set", layer |-> layer, values |-> <<update>>] :
     layer \in Layers,
     update \in {<<<<"api", "key">>, Str("v1")>>, <<<<"api", "endpoint">>, Str("v2")>>}}
    \cup {[kind |-> "unset", layer |-> layer, keys |-> <<<<"api", "key">>>>] :
            layer \in Layers}
    \cup {[kind |-> "append", id |-> id, prompt |-> edit[1], data |-> edit[2]] :
            id \in {1, 2}, edit \in {<<"p1", "d1">>, <<"p2", "d2">>}}

\* the document that an invocation works on
Target(op) ==
  IF op.kind = "append" THEN <<"session", op.id>>
  ELSE <<"layer", getWritableConfigPath(op.layer)>>

DocAt(fs, st, target) ==
  IF target[1] = "session" THEN st[target[2]] ELSE fs[target[2]]

writeFileSyncCreatesOnly(fs, path, content) ==
  IF existsSync(fs[path]) THEN fs ELSE [fs EXCEPT ![path] = content]

\* writeFileSync(path, content): the file holds content, whatever it held
writeFileSync(fs, path, content) == [fs EXCEPT ![path] = content]

\* what an invocation holds after its read: whether it goes on to write,
\* and the document that it writes
computed(fs, st, op, now) ==
  CASE op.kind = "set" ->
         LET r == setConfigValues(fs, op.values, op.layer)
         IN [writes |-> r.ok, doc |-> r.files[getWritableConfigPath(op.layer)]]
    [] op.kind = "unset" ->
         LET r == unsetConfigValues(fs, op.keys, op.layer)
         IN [writes |-> r.ok /\ existsSync(fs[getWritableConfigPath(op.layer)]),
             doc |-> r.files[getWritableConfigPath(op.layer)]]
    [] op.kind = "append" ->
         LET r == addEntry(st, op.id, op.prompt, "o", op.data, now)
         IN [writes |-> ~r.threw /\ ~r.null, doc |-> r.store[op.id]]

RaceDoc == MapOf([api |-> MapOf([key |-> Str("v0")])])

RaceStore ==
  LET none == [id \in RecordIds |-> NoRecord]
      one == create(none, {}, 50, <<1>>, 1, 1, "m", "img").store
  IN create(one, {}, 50, <<1, 2>>, 2, 1, "m", "img").store

InitRace ==
  /\ \E doc \in {Missing, RaceDoc} :
       files = [NoFiles EXCEPT !["global"] = RaceDoc, !["project"] = doc]
  /\ env = NoEnv
  /\ store = RaceStore
  /\ clock = 1
  /\ nextId = 2
  /\ locked = {}
  /\ mTarget = MapOf(EmptyMap)
  /\ mSource = MapOf(EmptyMap)
  /\ repl = NoRepl
  /\ procs = [p \in Procs |-> IdleProc]
  /\ out = Idle

\* the read and the computation of the new document
Begin(p, op) ==
  /\ procs[p].pc = "idle"
  /\ LET c == computed(files, store, op, clock)
     IN procs' = [procs EXCEPT ![p] = [pc |-> IF c.writes THEN "loaded" ELSE "done",
                                       op |-> op, writes |-> c.writes, doc |-> c.doc]]
  /\ out' = [op |-> "read", proc |-> p]
  /\ UNCHANGED <<cfgVars, sessVars, mergeVars, repl>>

\* the write: writeFileSync(path, stringify(config)), storage.save(session)
Commit(p) ==
  /\ procs[p].pc = "loaded"
  /\ IF procs[p].op.kind = "append"
     THEN /\ store' = save(store, procs[p].doc)
          /\ files' = files
     ELSE /\ files' = writeFileSync(files, getWritableConfigPath(procs[p].op.layer),
                                    procs[p].doc)
          /\ store' = store
  /\ procs' = [procs EXCEPT ![p].pc = "done"]
  /\ out' = [op |-> "write", proc |-> p]
  /\ UNCHANGED <<env, clock, nextId, locked, mergeVars, repl>>

NextRace ==
  \/ \E p \in Procs, op \in RaceOps : Begin(p, op)
  \/ \E p \in Procs : Commit(p)

SpecRace == InitRace /\ [][NextRace]_vars

Writes(p) == procs[p].pc = "loaded" /\ procs'[p].pc = "done"

Others(p) == Procs \ {p}

\* C27: the write of an invocation leaves in its layer or session exactly
\* the document that this invocation computed from what it had read,
\* whatever another invocation wrote there in between, and changes no other
\* layer or session; an invocation whose layer or session differs from the
\* other's computes what it would compute alone; a read changes no document
LastWriteWins ==
  [][/\ \A p \in Procs :
          Writes(p) =>
            LET target == Target(procs[p].op)
            IN /\ DocAt(files', store', target) = procs[p].doc
               /\ \A path \in ConfigPaths :
                    <<"layer", path>> # target => files'[path] = files[path]
               /\ \A id \in DOMAIN store :
                    <<"session", id>> # target => store'[id] = store[id]
               /\ (\A q \in Others(p) :
                     procs[q].pc # "idle" => Target(procs[q].op) # target)
                    => procs[p].doc = computed(files, store, procs[p].op, clock).doc
     /\ (\A p \in Procs : ~Writes(p)) => (files' = files /\ store' = store)]_vars

\* both invocations appended to session 1, and its history has one entry
AppendLost ==
  /\ \A p \in Procs :
       /\ procs[p].pc = "done"
       /\ procs[p].writes
       /\ procs[p].op.kind = "append"
       /\ procs[p].op.id = 1
  /\ procs[1].op.prompt # procs[2].op.prompt
  /\ Len(store[1].history) = 1

(***************************************************************************)
(* Specification of the machine round trip:                                *)
(*   bnn cfg export --json > f ; cat f | bnn cfg import --json [-g]        *)
(***************************************************************************)
\* JSON.parse(JSON.stringify(config)): a key whose value is undefined is
\* left out
RECURSIVE jsonRoundTrip(_)
jsonRoundTrip(n) ==
  IF ~IsMap(n) THEN n
  ELSE MapOf([key \in {x \in DOMAIN n.m : n.m[x] # UndefV} |-> jsonRoundTrip(n.m[key])])

\* exportConfig() printed by printConfig: [ok, payload]
exportCommand(fs, e) ==
  LET config == loadConfig(fs, e, NoPath)
  IN IF ~config.ok THEN [ok |-> FALSE]
     ELSE [ok |-> TRUE, config |-> config.value, payload |-> jsonRoundTrip(config.value)]

RoundTripDocs ==
  {Missing,
   MapOf([api |-> MapOf([key |-> Str("v1")])]),
   MapOf([model |-> MapOf([default |-> Str(Pro), thinking |-> Str("high")])]),
   MapOf([output |-> MapOf([resolution |-> Str("2k"), directory |-> Str("out")])])}

RoundTripEnvs ==
  {[[[NoEnv EXCEPT !["BNN_API_KEY"] = key] EXCEPT !["BNN_ASPECT_RATIO"] = ratio]
      EXCEPT !["BNN_MODEL"] = model] :
     key \in {"", "k"}, ratio \in {"", "16:9", "5:5"}, model \in {"", Pro}}

InitRoundTrip ==
  /\ \E g \in RoundTripDocs, pr \in RoundTripDocs :
       files = [global |-> g, project |-> pr, override |-> Missing]
  /\ env \in RoundTripEnvs
  /\ store = EmptyMap
  /\ clock = 0
  /\ nextId = 0
  /\ locked = {}
  /\ mTarget = MapOf(EmptyMap)
  /\ mSource = MapOf(EmptyMap)
  /\ repl = NoRepl
  /\ procs = NoProcs
  /\ out = Idle

\* export, then import of what was exported, then resolve
RoundTrip(layer) ==
  LET exported == exportCommand(files, env)
  IN /\ exported.ok
     /\ LET r == importCommand(files, exported.payload, layer)
        IN /\ files' = r.files
           /\ out' = [op |-> "roundTrip", layer |-> layer, exported |-> exported.config,
                      ok |-> r.ok, after |-> loadConfig(r.files, env, NoPath)]
     /\ UNCHANGED <<env, sessVars, mergeVars, procVars>>

NextRoundTrip == \E layer \in Layers : RoundTrip(layer)

SpecRoundTrip == InitRoundTrip /\ [][NextRoundTrip]_vars

\* C31: the import of an exported effective configuration succeeds, and the
\* effective configuration resolved afterwards in the same environment is
\* the one that was exported
RoundTripKeepsEffective ==
  out.op = "roundTrip" =>
    (out.ok /\ out.after.ok /\ out.after.value = out.exported)

\* C32: after a create that returned, get on the id of the session it
\* returned gives that session: the pruning inside create did not remove it
CreatedSessionRetrievable ==
  (out.op = "create" /\ ~out.threw) =>
    LET g == storageGet(store, out.id)
    IN ~g.null /\ g.session = out.session

\* a step in which the edit capability was called, by the edit command or
\* by a line of the loop
EditCalled == out'.op \in {"edit", "line"} /\ out'.called

EditedSession == IF out'.op = "edit" THEN out'.sessionId ELSE repl.sessionId

HistoryLen(st, id) == IF IsSession(st[id]) THEN Len(st[id].history) ELSE 0

\* the sessions of the store after the step whose history has another
\* length than before it
Grown == {id \in DOMAIN store' : IsSession(store'[id])
                                  /\ HistoryLen(store', id) # HistoryLen(store, id)}

\* C33: when the edit call or the write of the image fails, every session
\* keeps its record (history and updated_at) and a session created by the
\* command has an empty history; the loop then awaits input.  When both
\* succeed, the history of the edited session, and of no other, grows by
\* one entry.  So the length of a history is the number of successful
\* edits of the session
FailedEditAppendsNothing ==
  [][EditCalled =>
       IF out'.result # "ok"
       THEN /\ Grown = {}
            /\ \A id \in DOMAIN store :
                 (IsSession(store[id]) /\ IsSession(store'[id])) => store'[id] = store[id]
            /\ out'.op = "line" => repl'.loop = "awaiting"
       ELSE /\ Grown \subseteq {EditedSession}
            /\ IsSession(store'[EditedSession]) =>
                 HistoryLen(store', EditedSession) = HistoryLen(store, EditedSession) + 1]_vars

FailedWriteKeptHistory ==
  /\ out.op = "line"
  /\ out.called
  /\ out.result = "writeThrows"
  /\ repl.loop = "awaiting"
  /\ IsSession(store[repl.sessionId])
  /\ Len(store[repl.sessionId].history) = 2
  /\ repl.editCount = 3

\* C34: every session of the store has last image data, so that
\* `edit --session <id>` on it does not stop for want of an image
StoredSessionsContinuable ==
  \A id \in DOMAIN store :
    IsSession(store[id]) => getLastImageData(store, id).data # NoData

\* key=value form with an argument that has no "=" or nothing before it
MalformedGiven(entries) ==
  /\ ~(Len(entries) = 2 /\ ~entries[1].eq /\ ~entries[2].eq)
  /\ \E i \in 1..Len(entries) : ~entries[i].eq \/ entries[i].key = <<>>

\* C35: a `cfg set` of which an entry is rejected (a secret with a literal
\* value, an argument that is not key=value, "-" with nothing on stdin)
\* writes none of its entries: every configuration document is as it was
CfgSetAllOrNothing ==
  [][out'.op = "cfgSet" =>
       /\ MalformedGiven(out'.entries) => out'.error # "none"
       /\ out'.error # "none" => files' = files]_vars

EarlierEntryNotWritten ==
  /\ out.op = "cfgSet"
  /\ Len(out.entries) = 2
  /\ out.entries[1] = [eq |-> TRUE, key |-> <<"api">>, val |-> "v1"]
  /\ out.error \in {"secretArgv", "invalidEntry", "noStdin"}
  /\ files[out.layer] = OldKey

\* C36: when the configuration resolves, it still resolves after a setMany
\* that succeeded
SetManyKeepsResolvable ==
  [][(out'.op = "setMany" /\ out'.ok /\ loadConfig(files, env, NoPath).ok) =>
       loadConfig(files', env, NoPath).ok]_vars

(***************************************************************************)
(* Specification of the project layer seen from a working directory that   *)
(* has one directory above it.  Besides the configuration documents the    *)
(* files are                                                               *)
(*   project       : <cwd>/.config/bnn.toml                                *)
(*   package       : <cwd>/package.json                                    *)
(*   parent        : <cwd>/../.config/bnn.toml                             *)
(*   parentPackage : <cwd>/../package.json                                 *)
(***************************************************************************)
TreePaths == ConfigPaths \cup {"package", "parent", "parentPackage"}

Present == [k |-> "file"]

NoRoot == "none"

\* the path of the project document under the directory that
\* findProjectRoot returns, NoRoot when it returns null
findProjectRoot(fs) ==
  IF existsSync(fs["project"]) \/ existsSync(fs["package"]) THEN "project"
  ELSE IF existsSync(fs["parent"]) \/ existsSync(fs["parentPackage"]) THEN "parent"
  ELSE NoRoot

\* loadConfig with the project document looked up from the working directory
loadConfigFrom(fs, e, customConfigPath) ==
  LET root == findProjectRoot(fs)
      projectFile == IF root = NoRoot THEN Missing ELSE fs[root]
  IN loadConfig([path \in ConfigPaths |->
                   IF path = "project" THEN projectFile ELSE fs[path]],
                e, customConfigPath)

ProjectDoc == MapOf([model |-> MapOf([default |-> Str(Pro)])])

ProjectUpdates ==
  {<<<<<<"output", "resolution">>, Str("2k")>>>>,
   <<<<<<"model", "thinking">>, Str("high")>>>>,
   <<<<<<"model", "default">>, Str(Flash)>>>>}

InitProject ==
  /\ \E doc \in {Missing, ProjectDoc}, up \in {Missing, ProjectDoc},
        package \in {Missing, Present}, upPackage \in {Missing, Present} :
       files = [path \in TreePaths |->
                  CASE path = "project" -> doc
                    [] path = "parent" -> up
                    [] path = "package" -> package
                    [] path = "parentPackage" -> upPackage
                    [] OTHER -> Missing]
  /\ env = NoEnv
  /\ store = EmptyMap
  /\ clock = 0
  /\ nextId = 0
  /\ locked = {}
  /\ mTarget = MapOf(EmptyMap)
  /\ mSource = MapOf(EmptyMap)
  /\ repl = NoRepl
  /\ procs = NoProcs
  /\ out = Idle

\* setMany on the project layer, with the configuration resolved before
\* and after it
ProjectSetMany(values) ==
  LET r == setConfigValues(files, values, "project")
  IN /\ files' = r.files
     /\ out' = [op |-> "setMany", values |-> values, ok |-> r.ok,
                root |-> findProjectRoot(files),
                before |-> loadConfigFrom(files, env, NoPath),
                after |-> loadConfigFrom(r.files, env, NoPath)]
     /\ UNCHANGED <<env, sessVars, mergeVars, procVars>>

ProjectUnsetMany(keys) ==
  LET r == unsetConfigValues(files, keys, "project")
  IN /\ files' = r.files
     /\ out' = [op |-> "unsetMany", keys |-> keys, ok |-> r.ok,
                root |-> findProjectRoot(files),
                before |-> loadConfigFrom(files, env, NoPath),
                after |-> loadConfigFrom(r.files, env, NoPath)]
     /\ UNCHANGED <<env, sessVars, mergeVars, procVars>>

NextProject ==
  \/ \E values \in ProjectUpdates : ProjectSetMany(values)
  \/ \E values \in ProjectUpdates : ProjectUnsetMany(<<values[1][1]>>)

SpecProject == InitProject /\ [][NextProject]_vars

\* the fields that the document of the project layer gives
ProjectFields(fs) ==
  LET root == findProjectRoot(fs)
      doc == IF root = NoRoot THEN Missing ELSE fs[root]
  IN IF ~IsMap(doc) THEN {}
     ELSE {sf \in UNION {{<<section, field>> : field \in SchemaFields[section]} :
                           section \in Sections} :
             /\ sf[1] \in DOMAIN doc.m
             /\ IsMap(doc.m[sf[1]])
             /\ sf[2] \in DOMAIN doc.m[sf[1]].m}

\* C37: inside a project, after a setMany on the project layer the
\* configuration resolved without override and environment has the values
\* set, and has every other value that the project layer gave before
ProjectWriteIsProjectRead ==
  [][(out'.op = "setMany" /\ out'.ok /\ out'.root # NoRoot /\ out'.before.ok) =>
       /\ out'.after.ok
       /\ \A i \in 1..Len(out'.values) :
            ValueAt(out'.after.value, out'.values[i][1][1], out'.values[i][1][2])
              = out'.values[i][2]
       /\ \A sf \in ProjectFields(files) :
            (\A i \in 1..Len(out'.values) : out'.values[i][1] # <<sf[1], sf[2]>>) =>
              ValueAt(out'.after.value, sf[1], sf[2])
                = ValueAt(out'.before.value, sf[1], sf[2])]_vars

\* a precondition of the edit command fails: no API key, neither --image
\* nor --session, an unsupported model, resolution, aspect ratio or
\* thinking level, an --image file that is not there, or a --session whose
\* record is missing or is not JSON
PreconditionFails(opts) ==
  /\ loadConfig(files, env, NoPath).ok
  /\ \/ ~EarlierChecksPass(opts)
     \/ opts.image = "none" /\ ~opts.session.given
     \/ opts.session.given /\ store[opts.session.id] \in {NoRecord, GarbageRecord}

\* C38: an edit command of which a precondition fails ends with the exit
\* code of a precondition (2, 4, 5 or 6) without having created a session
\* or called the edit capability, and the store is as it was
PreconditionFailureKeepsStore ==
  [][(out'.op = "edit" /\ PreconditionFails(out'.opts)) =>
       /\ out'.exit \in {2, 4, 5, 6}
       /\ ~out'.crashed
       /\ ~out'.called
       /\ ~out'.created
       /\ store' = store
       /\ nextId' = nextId]_vars

MissingImageKeptStore ==
  /\ out.op = "edit"
  /\ out.opts.image = "absent"
  /\ ~out.opts.session.given
  /\ out.exit = 6
  /\ \E id \in DOMAIN store : IsSession(store[id]) /\ Len(store[id].history) >= 1

\* C39: a record file is in the result of list exactly when get on its id
\* returns a session
ListAgreesWithGet ==
  out.op = "list" =>
    \A id \in DOMAIN store :
      (\E i \in 1..Len(out.result) : out.result[i].id = id) <=> ~storageGet(store, id).null

\* the fields to which the built-in defaults give a value
DefaultFields ==
  {sf \in UNION {{<<section, field>> : field \in SchemaFields[section]} :
                   section \in Sections} :
     ValueAt(DEFAULT_CONFIG, sf[1], sf[2]) # UndefV}

\* every built-in default is a value that the schema accepts for its field,
\* and the default model, resolution and aspect ratio pass the validators
DefaultsInEnums ==
  /\ \A sf \in DefaultFields : FieldOk(sf[1], sf[2], ValueAt(DEFAULT_CONFIG, sf[1], sf[2]))
  /\ {<<"model", "default">>, <<"output", "resolution">>, <<"output", "aspect_ratio">>,
      <<"output", "naming">>, <<"logging", "level">>} \subseteq DefaultFields
  /\ validateModel(ValueAt(DEFAULT_CONFIG, "model", "default").v)
  /\ validateResolution(ValueAt(DEFAULT_CONFIG, "output", "resolution").v)
  /\ validateAspectRatio(ValueAt(DEFAULT_CONFIG, "output", "aspect_ratio").v)

====
